---- MODULE Spec2Model ----
(***************************************************************************)
(* Model of the commissary price pipeline: the fixed-basket inflation      *)
(* calculation of src/src/analysis/calculate_inflation.py and the          *)
(* item-name / size normaliser of src/clean_commissary_data.py.            *)
(*                                                                         *)
(* Numbers.  Prices are integer cents.  Every derived number (price_avg,   *)
(* a mean, a percentage) is an exact rational [k |-> "rat", n, d] in       *)
(* lowest terms, or one of the three non-finite results the code can       *)
(* produce: None (Python None), NaN and Inf (numpy float64 division by     *)
(* zero and the mean of an empty Series).  pandas treats None and NaN as   *)
(* null; Inf is not null.  Rounding of binary floating point is not        *)
(* modelled.                                                               *)
(*                                                                         *)
(* Frames.  A DataFrame is modelled by the set of its rows.  The order of  *)
(* the rows matters to the code in one place only: among the rows of one   *)
(* item and one year, which row comes first after sort_values('year')      *)
(* (pandas' default quicksort, which is not stable).  The Calculate action *)
(* draws that order, per item.                                             *)
(***************************************************************************)
EXTENDS Integers, Sequences, FiniteSets, TLC

\* ------------------------------------------------------------------ bounds
MaxRows == 3
MaxTokens == 4
MaxApplications == 2
MaxWords == 2
MaxCalls == 2

\* ------------------------------------------------------- program constants
BaselineYear == 2019

Years == {2019, 2020, 2021}
NA == "<NA>"
\* The catalogue the input rows are drawn from: item A (no size) is listed at
\* 0.00, 10.00 or 12.00; item B (12 oz) at 5.00 or the range 10.00-14.00.
\* Prices are <<price_min, price_max>> in cents.
Catalogue ==
  { [item_name |-> "A", size |-> NA,
     prices |-> {<<0, 0>>, <<1000, 1000>>, <<1200, 1200>>}],
    [item_name |-> "B", size |-> "12 oz",
     prices |-> {<<500, 500>>, <<1000, 1400>>}] }
ItemKeys == {<<k.item_name, k.size>> : k \in Catalogue}
Categories == {"CANDY", "HYGIENE"}
RequiredYearsChoices == {<<2019>>, <<2019, 2020>>, <<2020, 2021>>, <<2021>>}

RowUniverse ==
  UNION { { [item_name |-> k.item_name, size |-> k.size, year |-> y, category |-> c,
             price_min |-> p[1], price_max |-> p[2]] :
            y \in Years, c \in Categories, p \in k.prices } : k \in Catalogue }

\* ----------------------------------------------------------------- numbers
None == [k |-> "none", n |-> 0, d |-> 1]
NaN == [k |-> "nan", n |-> 0, d |-> 1]
Inf == [k |-> "inf", n |-> 0, d |-> 1]
NegInf == [k |-> "-inf", n |-> 0, d |-> 1]

Abs(x) == IF x < 0 THEN -x ELSE x

RECURSIVE GCD(_, _)
GCD(a, b) == IF b = 0 THEN a ELSE GCD(b, a % b)

\* The rational n/d (d # 0) in lowest terms with a positive denominator.
Rat(n, d) ==
  LET g == GCD(Abs(n), Abs(d))
      s == IF d < 0 THEN -1 ELSE 1
  IN [k |-> "rat", n |-> (s * n) \div g, d |-> (s * d) \div g]

Num(i) == Rat(i, 1)
IsRat(v) == v.k = "rat"
\* pandas' isna: None and NaN are null, a finite number and inf are not.
IsNull(v) == v.k \in {"none", "nan"}

\* float64 arithmetic: NaN is absorbing, inf - inf is NaN.
FSub(a, b) ==
  IF IsRat(a) /\ IsRat(b) THEN Rat(a.n * b.d - b.n * a.d, a.d * b.d)
  ELSE IF IsNull(a) \/ IsNull(b) THEN NaN
  ELSE IF IsRat(b) THEN a
  ELSE IF IsRat(a) THEN (IF b = Inf THEN NegInf ELSE Inf)
  ELSE IF a = b THEN NaN ELSE a

FAdd(a, b) ==
  IF IsRat(a) /\ IsRat(b) THEN Rat(a.n * b.d + b.n * a.d, a.d * b.d) ELSE NaN

\* numpy float64 division: x/0 is inf or -inf, 0/0 is nan, nothing is raised.
FDiv(a, b) ==
  IF ~(IsRat(a) /\ IsRat(b)) THEN NaN
  ELSE IF b.n = 0 THEN (IF a.n = 0 THEN NaN ELSE IF a.n > 0 THEN Inf ELSE NegInf)
  ELSE Rat(a.n * b.d, a.d * b.n)

FMul(a, i) == IF IsRat(a) THEN Rat(a.n * i, a.d) ELSE a

\* Variant: the base is not subtracted before dividing.
pct_change_ratio(value, base) == FMul(FDiv(value, base), 100)

\* ((value - base) / base) * 100, the expression of every inflation figure.
pct_change(value, base) == FMul(FDiv(FSub(value, base), base), 100)

\* -------------------------------------------------------------- row fields
fillna(s) == IF s = NA THEN "" ELSE s

\* commissary_df['item_id'] = item_name + '|' + size.fillna('')
item_id(r) == r.item_name \o "|" \o fillna(r.size)

\* commissary_df['price_avg'] = (price_min + price_max) / 2
price_avg(r) == Rat(r.price_min + r.price_max, 2)

COMMISSARY_TO_CPI_MAPPING ==
  [c \in {"CANDY", "CONDIMENTS", "INSTANT FOODS", "JUICES / WATER / TEA",
          "KOSHER ITEMS", "OTHER FOOD ITEMS", "PACKAGED MEAT", "SNACKS", "SODAS",
          "BEVERAGES", "ICE CREAM", "INSTANT DRINK MIX", "INSTANT DRINK MIXES",
          "HYGIENE", "FEMALE ONLY", "MALE ONLY", "CLOTHING", "SHOES",
          "OTC MEDICATIONS, VITAMINS, ETC", "ART SUPPLIES", "CORRESPONDENCE",
          "GAMES", "ELECTRICAL", "JEWELRY / RELIGIOUS", "MISCELLANEOUS"} |->
     IF c \in {"CANDY", "CONDIMENTS", "INSTANT FOODS", "JUICES / WATER / TEA",
               "KOSHER ITEMS", "OTHER FOOD ITEMS", "PACKAGED MEAT", "SNACKS",
               "SODAS", "BEVERAGES", "ICE CREAM", "INSTANT DRINK MIX",
               "INSTANT DRINK MIXES"} THEN "Food at home"
     ELSE IF c \in {"HYGIENE", "FEMALE ONLY", "MALE ONLY"} THEN "Personal care"
     ELSE IF c \in {"CLOTHING", "SHOES"} THEN "Apparel"
     ELSE IF c = "OTC MEDICATIONS, VITAMINS, ETC" THEN "Medicinal drugs"
     ELSE IF c \in {"ART SUPPLIES", "CORRESPONDENCE", "GAMES", "ELECTRICAL"}
       THEN "Recreation"
     ELSE IF c = "JEWELRY / RELIGIOUS" THEN "Other goods"
     ELSE "CPI-U"]

get_cpi_category(commissary_category) ==
  IF commissary_category \in DOMAIN COMMISSARY_TO_CPI_MAPPING
    THEN COMMISSARY_TO_CPI_MAPPING[commissary_category]
    ELSE "CPI-U"

cpi_category(r) == get_cpi_category(r.category)

\* cpi_to_commissary_mapping.py: CPI category -> list of commissary categories.
CPI_TO_COMMISSARY_MAPPING ==
  [c \in {"Apparel", "Food at home", "Personal care", "Medicinal drugs",
          "Recreation"} |->
     IF c = "Apparel" THEN <<"CLOTHING", "JEWELRY / RELIGIOUS", "SHOES">>
     ELSE IF c = "Food at home"
       THEN <<"INSTANT FOODS", "KOSHER ITEMS", "PACKAGED MEAT", "SNACKS",
              "ICE CREAM", "CONDIMENTS", "INSTANT DRINK MIXES", "BEVERAGES",
              "CANDY", "JUICES / WATER / TEA", "OTHER FOOD ITEMS", "SODAS",
              "INSTANT DRINK MIX">>
     ELSE IF c = "Personal care" THEN <<"HYGIENE", "FEMALE ONLY", "MALE ONLY">>
     ELSE IF c = "Medicinal drugs" THEN <<"OTC MEDICATIONS, VITAMINS, ETC">>
     ELSE <<"ART SUPPLIES", "CORRESPONDENCE", "GAMES", "ELECTRICAL">>]

\* CPI_TO_COMMISSARY_MAPPING.get(cpi_category, []), as a set.
listed_under(cpi) ==
  IF cpi \in DOMAIN CPI_TO_COMMISSARY_MAPPING
    THEN {CPI_TO_COMMISSARY_MAPPING[cpi][i] : i \in DOMAIN CPI_TO_COMMISSARY_MAPPING[cpi]}
    ELSE {}

\* --------------------------------------------------------- frame operations
Range(s) == {s[i] : i \in DOMAIN s}

RECURSIVE SumPriceAvg(_)
SumPriceAvg(rows) ==
  IF rows = {} THEN Num(0)
  ELSE LET r == CHOOSE x \in rows : TRUE
       IN FAdd(price_avg(r), SumPriceAvg(rows \ {r}))

\* Series.mean() of the price_avg column: NaN for an empty selection.
MeanPriceAvg(rows) ==
  IF rows = {} THEN NaN
  ELSE FDiv(SumPriceAvg(rows), Num(Cardinality(rows)))

RECURSIVE SeqMin(_)
SeqMin(s) ==
  IF Len(s) = 1 THEN s[1]
  ELSE LET m == SeqMin(Tail(s)) IN IF s[1] < m THEN s[1] ELSE m

\* The results sort_values('year') can give for a frame: every arrangement of
\* its rows with the years in non-decreasing order.
RECURSIVE SortedByYear(_)
SortedByYear(rows) ==
  IF rows = {} THEN {<<>>}
  ELSE LET first == {r \in rows : \A q \in rows : r.year <= q.year}
       IN UNION { { <<r>> \o rest : rest \in SortedByYear(rows \ {r}) } : r \in first }

\* ------------------------------------------------------ fixed-basket selector
\* Variant: an item qualifies by the number of its years, not by which years.
identify_fixed_basket_items_count(df, required) ==
  LET ids == {item_id(r) : r \in df}
      years_present(id) == {r.year : r \in {q \in df : item_id(q) = id}}
  IN {id \in ids : Cardinality(years_present(id)) >= Len(required)}

\* Item ids whose set of observed years contains every required year.
identify_fixed_basket_items(df, required) ==
  LET ids == {item_id(r) : r \in df}
      years_present(id) == {r.year : r \in {q \in df : item_id(q) = id}}
  IN {id \in ids : Range(required) \subseteq years_present(id)}

\* Variant: the frame is not filtered.
FilterToBasket_all(df, fixed_basket_items) == df

\* commissary_df[commissary_df['item_id'].isin(fixed_basket_items)]
FilterToBasket(df, fixed_basket_items) ==
  {r \in df : item_id(r) \in fixed_basket_items}

\* ------------------------------------------- upstream year-coverage filter
\* df.groupby('item_name')['year'].nunique()
year_count_by_item_name(df) ==
  [name \in {r.item_name : r \in df} |->
     Cardinality({r.year : r \in {q \in df : q.item_name = name}})]

\* Variant: an item needs more than min_years years.
filter_by_year_coverage_more(df, min) ==
  LET count == year_count_by_item_name(df)
      common_items == {name \in DOMAIN count : count[name] > min}
  IN {r \in df : r.item_name \in common_items}

\* filter_by_year_coverage(df, min_years), its first result.
filter_by_year_coverage(df, min) ==
  LET count == year_count_by_item_name(df)
      common_items == {name \in DOMAIN count : count[name] >= min}
  IN {r \in df : r.item_name \in common_items}

\* ------------------------------------------------------- inflation calculator
SetMin(S) == CHOOSE m \in S : \A x \in S : m <= x

\* Variant: the year-over-year guard compares with the fixed 2019, as the
\* group tables do.
ItemYoy_fixed(item_data, row, required) ==
  LET prev_idx == {j \in DOMAIN item_data : item_data[j].year = row.year - 1}
  IN IF row.year > BaselineYear /\ prev_idx # {}
       THEN pct_change(price_avg(row), price_avg(item_data[SetMin(prev_idx)]))
       ELSE None

\* yoy_inflation of one row of item_data.
ItemYoy(item_data, row, required) ==
  LET prev_idx == {j \in DOMAIN item_data : item_data[j].year = row.year - 1}
  IN IF row.year > SeqMin(required) /\ prev_idx # {}
       THEN pct_change(price_avg(row), price_avg(item_data[SetMin(prev_idx)]))
       ELSE None

\* The rows appended to item_results for one basket item; item_data is the
\* item's frame after sort_values('year').
ItemLevelRows(item_data, required) ==
  LET baseline_idx == {i \in DOMAIN item_data : item_data[i].year = BaselineYear}
  IN IF Len(item_data) < Len(required) THEN <<>>
     ELSE IF baseline_idx = {} THEN <<>>
     ELSE
       LET baseline_price == price_avg(item_data[SetMin(baseline_idx)])
           first == item_data[1]
       IN [i \in DOMAIN item_data |->
            LET row == item_data[i]
                price == price_avg(row)
            IN [year |-> row.year,
                category |-> first.category,
                cpi_category |-> cpi_category(first),
                item_name |-> first.item_name,
                size |-> first.size,
                price |-> price,
                yoy_inflation_pct |-> ItemYoy(item_data, row, required),
                cumulative_inflation_pct |-> pct_change(price, baseline_price)]]

\* item_results, kept per item: item id -> the rows appended for it, in order.
\* item_data[id] is commissary_df[commissary_df['item_id'] == id].sort_values('year').
ItemLevel(item_data, fixed_basket_items, required) ==
  [id \in fixed_basket_items |-> ItemLevelRows(item_data[id], required)]

\* The ways sort_values('year') can arrange each basket item's rows.
SortedItemData(filtered, fixed_basket_items) ==
  LET rows_of(id) == {r \in filtered : item_id(r) = id}
      all == UNION {SortedByYear(rows_of(id)) : id \in fixed_basket_items}
  IN {f \in [fixed_basket_items -> all] :
        \A id \in fixed_basket_items : f[id] \in SortedByYear(rows_of(id))}

\* One row of a group-level table: the group's rows of that year (group_year),
\* of the baseline year and of the year before, all taken from the filtered frame.
GroupCumulative(avg_price, baseline_data) ==
  IF baseline_data # {} THEN pct_change(avg_price, MeanPriceAvg(baseline_data))
  ELSE None

GroupYoy(year, avg_price, prev_year_data) ==
  IF year > BaselineYear /\ prev_year_data # {}
    THEN pct_change(avg_price, MeanPriceAvg(prev_year_data))
    ELSE None

CategoryLevel(df) ==
  { LET cat_data == {r \in df : r.year = yc[1] /\ r.category = yc[2]}
        avg_price == MeanPriceAvg(cat_data)
    IN [year |-> yc[1],
        category |-> yc[2],
        cpi_category |-> get_cpi_category(yc[2]),
        avg_price |-> avg_price,
        yoy_inflation_pct |->
          GroupYoy(yc[1], avg_price,
                   {r \in df : r.category = yc[2] /\ r.year = yc[1] - 1}),
        cumulative_inflation_pct |->
          GroupCumulative(avg_price,
                   {r \in df : r.category = yc[2] /\ r.year = BaselineYear})]
    : yc \in {<<r.year, r.category>> : r \in df} }

CpiCategoryLevel(df) ==
  { LET cpi_cat_data == {r \in df : r.year = yc[1] /\ cpi_category(r) = yc[2]}
        avg_price == MeanPriceAvg(cpi_cat_data)
    IN [year |-> yc[1],
        cpi_category |-> yc[2],
        avg_price |-> avg_price,
        yoy_inflation_pct |->
          GroupYoy(yc[1], avg_price,
                   {r \in df : cpi_category(r) = yc[2] /\ r.year = yc[1] - 1}),
        cumulative_inflation_pct |->
          GroupCumulative(avg_price,
                   {r \in df : cpi_category(r) = yc[2] /\ r.year = BaselineYear})]
    : yc \in {<<r.year, cpi_category(r)>> : r \in df} }

\* The overall table has no emptiness guard: an empty baseline or previous year
\* gives the mean NaN, and the percentage NaN.
Overall(df) ==
  { LET avg_price == MeanPriceAvg({r \in df : r.year = y})
    IN [year |-> y,
        level |-> "overall",
        avg_price |-> avg_price,
        yoy_inflation_pct |->
          IF y > BaselineYear
            THEN pct_change(avg_price, MeanPriceAvg({r \in df : r.year = y - 1}))
            ELSE None,
        cumulative_inflation_pct |->
          pct_change(avg_price, MeanPriceAvg({r \in df : r.year = BaselineYear}))]
    : y \in {r.year : r \in df} }

\* The item count as the number of rows of the frame.
nunique_item_id_rows(df) == Cardinality(df)

\* commissary_df['item_id'].nunique()
nunique_item_id(df) == Cardinality({item_id(r) : r \in df})

\* calculate_commissary_inflation(commissary_df, required_years); item_data is
\* each basket item's frame as sort_values('year') arranges it.
calculate_commissary_inflation(df, required, item_data) ==
  LET fixed_basket_items == identify_fixed_basket_items(df, required)
      original_item_count == nunique_item_id(df)
      filtered == FilterToBasket(df, fixed_basket_items)
      fixed_basket_item_count == Cardinality(fixed_basket_items)
  IN [item_level |-> ItemLevel(item_data, fixed_basket_items, required),
      category_level |-> CategoryLevel(filtered),
      cpi_category_level |-> CpiCategoryLevel(filtered),
      overall |-> Overall(filtered),
      fixed_basket_info |->
        [total_items_original |-> original_item_count,
         fixed_basket_items |-> fixed_basket_item_count,
         items_excluded |-> original_item_count - fixed_basket_item_count,
         required_years |-> required]]

\* ------------------------------------------------- CPI series and comparison
\* The CPI rows the comparison is run on: a row is (year, cpi_type, value).
CpiRow(year, cpi_type, value) == [year |-> year, cpi_type |-> cpi_type, value |-> value]
CpiFrames ==
  { \* CPI-U over every year
    {CpiRow(2019, "CPI-U", 100), CpiRow(2020, "CPI-U", 110), CpiRow(2021, "CPI-U", 121)},
    \* a gap in Food at home, Personal care without its baseline year
    {CpiRow(2019, "CPI-U", 100), CpiRow(2020, "CPI-U", 110),
     CpiRow(2019, "Food at home", 100), CpiRow(2021, "Food at home", 110),
     CpiRow(2020, "Personal care", 100), CpiRow(2021, "Personal care", 105)},
    \* a year listed twice, every category with its baseline
    {CpiRow(2019, "CPI-U", 100), CpiRow(2020, "CPI-U", 110), CpiRow(2020, "CPI-U", 120),
     CpiRow(2019, "Personal care", 100), CpiRow(2020, "Personal care", 105),
     CpiRow(2019, "Food at home", 200), CpiRow(2020, "Food at home", 210)},
    \* no baseline year at all
    {CpiRow(2020, "Food at home", 100), CpiRow(2021, "Food at home", 110)} }

\* The ways sort_values('year') can arrange the rows of each cpi_type.
SortedTypeData(cpi_df) ==
  LET types == {r.cpi_type : r \in cpi_df}
      rows_of(t) == {r \in cpi_df : r.cpi_type = t}
      all == UNION {SortedByYear(rows_of(t)) : t \in types}
  IN {f \in [types -> all] : \A t \in types : f[t] \in SortedByYear(rows_of(t))}

\* calculate_cpi_inflation(cpi_df), kept per cpi_type: the rows appended to
\* results for it, in order; type_data[t] is the sorted frame of the type.
calculate_cpi_inflation(cpi_df, type_data) ==
  [cpi_type \in {r.cpi_type : r \in cpi_df} |->
     LET data == type_data[cpi_type]
         baseline == {i \in DOMAIN data : data[i].year = BaselineYear}
     IN IF baseline = {} THEN <<>>
        ELSE
          LET baseline_value == Num(data[SetMin(baseline)].value)
          IN [i \in DOMAIN data |->
               LET row == data[i]
                   value == Num(row.value)
                   prev_year_data == {j \in DOMAIN data : data[j].year = row.year - 1}
               IN [year |-> row.year,
                   cpi_type |-> cpi_type,
                   cpi_value |-> value,
                   yoy_inflation_pct |->
                     IF row.year > BaselineYear /\ prev_year_data # {}
                       THEN pct_change(value, Num(data[SetMin(prev_year_data)].value))
                       ELSE None,
                   cumulative_inflation_pct |-> pct_change(value, baseline_value)]]]

\* pd.DataFrame(results): a column that holds a number besides None is a
\* float64 column and its None is NaN; a column of None alone keeps None.
column_value(v, column) ==
  IF v = None /\ \E x \in column : x # None THEN NaN ELSE v

\* Variant: an absent operand counts as zero.
comparison_diff_zero(comm, cpi) ==
  FSub(IF IsNull(comm) THEN Num(0) ELSE comm, IF IsNull(cpi) THEN Num(0) ELSE cpi)

\* yoy_diff and cum_diff of compare_inflation.
comparison_diff(comm, cpi) ==
  IF cpi # None /\ comm # None THEN FSub(comm, cpi) ELSE None

\* One appended row of comparisons; cpi_columns and comm_columns are the
\* yoy and cumulative columns of the two frames the rows were read from.
comparison_row(level, cpi_type, cpi_row, comm_row, cpi_columns, comm_columns) ==
  LET cpi_yoy == column_value(cpi_row.yoy_inflation_pct, cpi_columns.yoy)
      comm_yoy == column_value(comm_row.yoy_inflation_pct, comm_columns.yoy)
      cpi_cum == column_value(cpi_row.cumulative_inflation_pct, cpi_columns.cum)
      comm_cum == column_value(comm_row.cumulative_inflation_pct, comm_columns.cum)
  IN [year |-> comm_row.year,
      level |-> level,
      cpi_type |-> cpi_type,
      commissary_yoy_pct |-> comm_yoy,
      cpi_yoy_pct |-> cpi_yoy,
      yoy_diff_pct |-> comparison_diff(comm_yoy, cpi_yoy),
      commissary_cum_pct |-> comm_cum,
      cpi_cum_pct |-> cpi_cum,
      cum_diff_pct |-> comparison_diff(comm_cum, cpi_cum)]

columns_of(rows) ==
  [yoy |-> {r.yoy_inflation_pct : r \in rows},
   cum |-> {r.cumulative_inflation_pct : r \in rows}]

\* The rows of cpi_inflation_df with one cpi_type, in frame order.
cpi_data_of(cpi_inflation_df, cpi_type) ==
  IF cpi_type \in DOMAIN cpi_inflation_df THEN cpi_inflation_df[cpi_type] ELSE <<>>

\* A frame built from an empty list has no column: indexing it raises KeyError.
compare_inflation_raises(cpi_inflation_df, commissary_inflation_dict) ==
  \/ \A t \in DOMAIN cpi_inflation_df : cpi_inflation_df[t] = <<>>
  \/ commissary_inflation_dict.overall = {}

\* compare_inflation(cpi_inflation_df, commissary_inflation_dict): the rows
\* appended to comparisons.
compare_inflation(cpi_inflation_df, commissary_inflation_dict) ==
  LET cpi_columns ==
        columns_of(UNION {Range(cpi_inflation_df[t]) : t \in DOMAIN cpi_inflation_df})
      cpi_u_data == cpi_data_of(cpi_inflation_df, "CPI-U")
      overall_commissary == commissary_inflation_dict.overall
      cpi_category_commissary == commissary_inflation_dict.cpi_category_level
      first_of(data, year) == data[SetMin({i \in DOMAIN data : data[i].year = year})]
      overall_rows ==
        { comparison_row("overall", "CPI-U",
                         first_of(cpi_u_data, year),
                         CHOOSE r \in overall_commissary : r.year = year,
                         cpi_columns, columns_of(overall_commissary))
          : year \in {r.year : r \in Range(cpi_u_data)}
                       \cap {r.year : r \in overall_commissary} }
      category_rows(category) ==
        LET cpi_data == cpi_data_of(cpi_inflation_df, category)
            comm_data ==
              {r \in cpi_category_commissary : r.cpi_category = category}
        IN { comparison_row("cpi_category", category,
                            first_of(cpi_data, year),
                            CHOOSE r \in comm_data : r.year = year,
                            cpi_columns, columns_of(cpi_category_commissary))
             : year \in {r.year : r \in Range(cpi_data)}
                          \cap {r.year : r \in comm_data} }
  IN overall_rows
       \cup UNION { category_rows(category) :
                      category \in
                        {r.cpi_category : r \in cpi_category_commissary} \ {"CPI-U"} }

\* ============================================ clean_commissary_data.py
\* Strings of the cleaning step are sequences of one-character strings.  The
\* alphabet is ASCII; "\v" and the non-ASCII digits, spaces and case folds
\* that Python's re knows are outside the inputs drawn below.
WhiteSpace == {" ", "\t", "\n", "\r", "\f"}
Digit == {"0", "1", "2", "3", "4", "5", "6", "7", "8", "9"}
LowerCase ==
  <<"a", "b", "c", "d", "e", "f", "g", "h", "i", "j", "k", "l", "m",
    "n", "o", "p", "q", "r", "s", "t", "u", "v", "w", "x", "y", "z">>
UpperCase ==
  <<"A", "B", "C", "D", "E", "F", "G", "H", "I", "J", "K", "L", "M",
    "N", "O", "P", "Q", "R", "S", "T", "U", "V", "W", "X", "Y", "Z">>

\* str.lower() and its inverse on one character.
lower_char(c) ==
  IF \E k \in 1..26 : UpperCase[k] = c
  THEN LowerCase[CHOOSE k \in 1..26 : UpperCase[k] = c]
  ELSE c
upper_char(c) ==
  IF \E k \in 1..26 : LowerCase[k] = c
  THEN UpperCase[CHOOSE k \in 1..26 : LowerCase[k] = c]
  ELSE c
lower(s) == [k \in 1..Len(s) |-> lower_char(s[k])]

upper(s) == [k \in 1..Len(s) |-> upper_char(s[k])]

\* sub in s: whether sub occurs in s as a substring.
Contains(s, sub) ==
  \E i \in 1..(Len(s) - Len(sub) + 1) : SubSeq(s, i, i + Len(sub) - 1) = sub

\* str.strip(): leading and trailing whitespace removed.
RECURSIVE lstrip(_)
lstrip(s) ==
  IF s # <<>> /\ Head(s) \in WhiteSpace THEN lstrip(Tail(s)) ELSE s
RECURSIVE rstrip(_)
rstrip(s) ==
  IF s # <<>> /\ s[Len(s)] \in WhiteSpace
  THEN rstrip(SubSeq(s, 1, Len(s) - 1)) ELSE s
strip(s) == lstrip(rstrip(s))

\* str.split() with no argument: the maximal runs of non-whitespace.
RECURSIVE split_from(_, _, _)
split_from(s, i, word) ==
  IF i > Len(s)
  THEN (IF word = <<>> THEN <<>> ELSE <<word>>)
  ELSE IF s[i] \in WhiteSpace
       THEN (IF word = <<>> THEN <<>> ELSE <<word>>) \o split_from(s, i + 1, <<>>)
       ELSE split_from(s, i + 1, Append(word, s[i]))
split(s) == split_from(s, 1, <<>>)

\* ' '.join(words)
RECURSIVE join(_)
join(words) ==
  IF words = <<>> THEN <<>>
  ELSE IF Len(words) = 1 THEN words[1]
  ELSE words[1] \o <<" ">> \o join(Tail(words))

\* ------------------------------------------------ regular expressions (re)
\* A regular expression is a tree of records [t, cs, xs]: one character of
\* a set, the end of the string ($), a concatenation, an ordered
\* alternation, a greedy star and a greedy option.
ReSet(cs) == [t |-> "set", cs |-> cs, xs |-> <<>>]
ReChr(c) == ReSet({c})
ReEol == [t |-> "eol", cs |-> {}, xs |-> <<>>]
ReCat(xs) == [t |-> "cat", cs |-> {}, xs |-> xs]
ReAlt(xs) == [t |-> "alt", cs |-> {}, xs |-> xs]
ReStar(x) == [t |-> "star", cs |-> {}, xs |-> <<x>>]
ReOpt(x) == [t |-> "opt", cs |-> {}, xs |-> <<x>>]
RePlus(x) == ReCat(<<x, ReStar(x)>>)
\* A literal word under re.IGNORECASE.
ReWordI(w) == ReCat([k \in 1..Len(w) |-> ReSet({lower_char(w[k]), upper_char(w[k])})])

\* Ends(re, s, i): the positions at which a match of re that starts at
\* position i of s can end, in the order the backtracking matcher tries
\* them (greedy first; alternatives left to right).
RECURSIVE Ends(_, _, _)
RECURSIVE CatEnds(_, _, _, _)
RECURSIVE CatThen(_, _, _, _, _)
RECURSIVE AltEnds(_, _, _, _)
RECURSIVE StarEnds(_, _, _)
RECURSIVE StarThen(_, _, _, _, _)
Ends(re, s, i) ==
  CASE re.t = "set" -> IF i <= Len(s) /\ s[i] \in re.cs THEN <<i + 1>> ELSE <<>>
    [] re.t = "eol" -> IF \/ i = Len(s) + 1
                          \/ (i = Len(s) /\ s[i] = "\n")
                       THEN <<i>> ELSE <<>>
    [] re.t = "cat" -> CatEnds(re.xs, 1, s, i)
    [] re.t = "alt" -> AltEnds(re.xs, 1, s, i)
    [] re.t = "star" -> StarEnds(re.xs[1], s, i)
    [] re.t = "opt" -> Ends(re.xs[1], s, i) \o <<i>>
CatEnds(xs, k, s, i) ==
  IF k > Len(xs) THEN <<i>> ELSE CatThen(Ends(xs[k], s, i), 1, xs, k + 1, s)
CatThen(es, j, xs, k, s) ==
  IF j > Len(es) THEN <<>>
  ELSE CatEnds(xs, k, s, es[j]) \o CatThen(es, j + 1, xs, k, s)
AltEnds(xs, k, s, i) ==
  IF k > Len(xs) THEN <<>> ELSE Ends(xs[k], s, i) \o AltEnds(xs, k + 1, s, i)
StarEnds(x, s, i) == StarThen(Ends(x, s, i), 1, x, s, i) \o <<i>>
StarThen(es, j, x, s, i) ==
  IF j > Len(es) THEN <<>>
  ELSE (IF es[j] > i THEN StarEnds(x, s, es[j]) ELSE <<>>)
       \o StarThen(es, j + 1, x, s, i)

\* A pattern is a sequence of parts (a concatenation cut at the borders of
\* its groups).  A match is the sequence of the parts' borders
\* <<start, end of part 1, ..., end of the last part>>; no match is <<>>.
RECURSIVE PartsMatch(_, _, _, _)
RECURSIVE PartsThen(_, _, _, _, _, _)
PartsMatch(parts, k, s, i) ==
  IF k > Len(parts) THEN <<i>>
  ELSE PartsThen(Ends(parts[k], s, i), 1, parts, k, s, i)
PartsThen(es, j, parts, k, s, i) ==
  IF j > Len(es) THEN <<>>
  ELSE LET rest == PartsMatch(parts, k + 1, s, es[j])
       IN IF rest # <<>> THEN <<i>> \o rest
          ELSE PartsThen(es, j + 1, parts, k, s, i)

\* re.search(pattern, s) from position pos on: the leftmost match.
RECURSIVE re_search_from(_, _, _)
re_search_from(parts, s, pos) ==
  IF pos > Len(s) + 1 THEN <<>>
  ELSE LET m == PartsMatch(parts, 1, s, pos)
       IN IF m # <<>> THEN m ELSE re_search_from(parts, s, pos + 1)
re_search(parts, s) == re_search_from(parts, s, 1)

\* The text of part g of a match.
group(m, g, s) == SubSeq(s, m[g], m[g + 1] - 1)

\* A replacement template is a sequence of [g, lit]: the text of part g, or
\* the literal lit when g = 0.
ReplGroup(g) == [g |-> g, lit |-> <<>>]
ReplLit(lit) == [g |-> 0, lit |-> lit]
RECURSIVE expand(_, _, _)
expand(repl, m, s) ==
  IF repl = <<>> THEN <<>>
  ELSE (IF Head(repl).g = 0 THEN Head(repl).lit ELSE group(m, Head(repl).g, s))
       \o expand(Tail(repl), m, s)

\* re.sub(pattern, repl, s): every non-overlapping match, left to right.
RECURSIVE re_sub_from(_, _, _, _)
re_sub_from(parts, repl, s, pos) ==
  LET m == re_search_from(parts, s, pos)
  IN IF m = <<>> THEN SubSeq(s, pos, Len(s))
     ELSE LET start == m[1]
              end == m[Len(m)]
          IN SubSeq(s, pos, start - 1) \o expand(repl, m, s)
             \o (IF end > start THEN re_sub_from(parts, repl, s, end)
                 ELSE IF start <= Len(s)
                      THEN <<s[start]>> \o re_sub_from(parts, repl, s, start + 1)
                      ELSE <<>>)
re_sub(parts, repl, s) == re_sub_from(parts, repl, s, 1)

\* ------------------------------------------------------ the patterns
ReSpace == ReSet(WhiteSpace)
ReDigit == ReSet(Digit)
\* \d+\.?\d*
ReNumber == ReCat(<<RePlus(ReDigit), ReOpt(ReChr(".")), ReStar(ReDigit)>>)
\* (?:oz|lb|gal|ml|kg|g|mg|l)
ReUnit ==
  ReAlt(<<ReWordI(<<"o", "z">>), ReWordI(<<"l", "b">>), ReWordI(<<"g", "a", "l">>),
          ReWordI(<<"m", "l">>), ReWordI(<<"k", "g">>), ReWordI(<<"g">>),
          ReWordI(<<"m", "g">>), ReWordI(<<"l">>)>>)
\* (?:pk|ct|piece|tab|tablet|sheet|bag|color|sht)s?
ReCount ==
  ReCat(<<ReAlt(<<ReWordI(<<"p", "k">>), ReWordI(<<"c", "t">>),
                  ReWordI(<<"p", "i", "e", "c", "e">>), ReWordI(<<"t", "a", "b">>),
                  ReWordI(<<"t", "a", "b", "l", "e", "t">>),
                  ReWordI(<<"s", "h", "e", "e", "t">>), ReWordI(<<"b", "a", "g">>),
                  ReWordI(<<"c", "o", "l", "o", "r">>), ReWordI(<<"s", "h", "t">>)>>),
          ReOpt(ReWordI(<<"s">>))>>)
\* (?:bottle|can|jar|pack)?
ReContainer ==
  ReOpt(ReAlt(<<ReWordI(<<"b", "o", "t", "t", "l", "e">>), ReWordI(<<"c", "a", "n">>),
                ReWordI(<<"j", "a", "r">>), ReWordI(<<"p", "a", "c", "k">>)>>))
ReQuote == ReSet({"\"", "'"})
\* \d+\.?\d*\s*(?:oz|...)  and  \d+\s*(?:pk|...)s?
ReMeasure == ReCat(<<ReNumber, ReStar(ReSpace), ReUnit>>)
RePieces == ReCat(<<RePlus(ReDigit), ReStar(ReSpace), ReCount>>)

\* r'\s*\$?\d+\.\d{2}-\s*$' and r'\s*\d+\.\d{2}-\s*$'
price_pattern_dollar ==
  <<ReCat(<<ReStar(ReSpace), ReOpt(ReChr("$")), RePlus(ReDigit), ReChr("."),
            ReDigit, ReDigit, ReChr("-"), ReStar(ReSpace), ReEol>>)>>
price_pattern ==
  <<ReCat(<<ReStar(ReSpace), RePlus(ReDigit), ReChr("."),
            ReDigit, ReDigit, ReChr("-"), ReStar(ReSpace), ReEol>>)>>

\* The nine size patterns, each as <<before the group, group 1, after it>>,
\* compiled with re.IGNORECASE.
size_patterns ==
  << <<RePlus(ReSpace),
       ReCat(<<RePlus(ReDigit), ReStar(ReSpace), ReSet({"x", "X"}),
               ReStar(ReSpace), RePlus(ReDigit)>>),
       ReCat(<<>>)>>,
     <<RePlus(ReSpace),
       ReCat(<<RePlus(ReDigit), ReSet({"x", "X"}), RePlus(ReDigit),
               ReOpt(ReCat(<<ReStar(ReSpace), ReQuote>>))>>),
       ReCat(<<>>)>>,
     <<ReChr("("), ReMeasure, ReChr(")")>>,
     <<ReChr("("), RePieces, ReChr(")")>>,
     <<ReSet({"-"} \cup WhiteSpace), ReMeasure,
       ReCat(<<ReStar(ReSpace), ReContainer, ReEol>>)>>,
     <<ReSet({"-"} \cup WhiteSpace), RePieces,
       ReCat(<<ReStar(ReSpace), ReEol>>)>>,
     <<RePlus(ReSpace), ReMeasure, ReEol>>,
     <<RePlus(ReSpace), RePieces, ReEol>>,
     <<RePlus(ReSpace),
       ReCat(<<ReNumber, ReStar(ReSpace), ReQuote>>),
       ReEol>> >>

\* r'[xX]\s*$' and r'\s+\d+$'
dimension_marker_pattern == <<ReCat(<<ReSet({"x", "X"}), ReStar(ReSpace), ReEol>>)>>
trailing_number_pattern == <<ReCat(<<RePlus(ReSpace), RePlus(ReDigit), ReEol>>)>>

\* r'(\d+\.?\d*)\s*x\s*(\d+\.?\d*)' -> r'\1x\2'
dimension_pattern ==
  <<ReNumber, ReCat(<<ReStar(ReSpace), ReChr("x"), ReStar(ReSpace)>>), ReNumber>>
dimension_repl == <<ReplGroup(1), ReplLit(<<"x">>), ReplGroup(3)>>
\* r'(\d+\.?\d*)\s*([a-wy-z]+)' -> r'\1 \2'
unit_spacing_pattern ==
  <<ReNumber, ReStar(ReSpace),
    RePlus(ReSet({LowerCase[k] : k \in 1..26} \ {"x"}))>>
unit_spacing_repl == <<ReplGroup(1), ReplLit(<<" ">>), ReplGroup(3)>>

\* ------------------------------------------------------ standardize_size
standardize_size(size_str) ==
  IF size_str = <<>> THEN <<>>
  ELSE LET lowered == lower(strip(size_str))
           dims == re_sub(dimension_pattern, dimension_repl, lowered)
           spaced == re_sub(unit_spacing_pattern, unit_spacing_repl, dims)
       IN join(split(spaced))

\* ------------------------------------------------------- clean_item_name
\* A missing size (NaN) in a row of the raw frame.
NullSize == <<NA>>

\* The index of the first size pattern that matches, 0 if none does.
RECURSIVE first_size_pattern(_, _)
first_size_pattern(item_name, k) ==
  IF k > Len(size_patterns) THEN 0
  ELSE IF re_search(size_patterns[k], item_name) # <<>> THEN k
  ELSE first_size_pattern(item_name, k + 1)

\* The strip as a mutation that also takes a trailing decimal number.
strip_trailing_number_decimal(item_name) ==
  IF re_search(dimension_marker_pattern, item_name) = <<>>
  THEN re_sub(<<ReCat(<<RePlus(ReSpace), ReNumber, ReEol>>)>>, <<>>, item_name)
  ELSE item_name

\* Lines 65-69: one trailing bare integer is removed unless the name ends in
\* an x.
strip_trailing_number(item_name) ==
  IF re_search(dimension_marker_pattern, item_name) = <<>>
  THEN re_sub(trailing_number_pattern, <<>>, item_name)
  ELSE item_name

clean_item_name(row) ==
  LET size0 == IF row.size = NullSize THEN <<>> ELSE row.size
      unpriced == re_sub(price_pattern, <<>>,
                         re_sub(price_pattern_dollar, <<>>, row.item_name))
      k == IF size0 = <<>> THEN first_size_pattern(unpriced, 1) ELSE 0
      match == IF k = 0 THEN <<>> ELSE re_search(size_patterns[k], unpriced)
      size1 == IF k = 0 THEN size0 ELSE strip(group(match, 2, unpriced))
      extracted == IF k = 0 THEN unpriced
                   ELSE strip(re_sub(size_patterns[k], <<>>, unpriced))
      item_name == strip_trailing_number(extracted)
      size == IF size1 # <<>> THEN standardize_size(size1) ELSE size1
  IN [item_name |-> join(split(item_name)), size |-> size]

\* ======================================= essential_classification.py
\* Item names, categories and keywords are sequences of one-character
\* strings; a keyword list is the set of its keywords (any() does not depend
\* on their order).

\* Categories that are generally essential.
ESSENTIAL_CATEGORIES ==
  { <<"H", "Y", "G", "I", "E", "N", "E">>,
    <<"M", "A", "L", "E", " ", "O", "N", "L", "Y">>,
    <<"F", "E", "M", "A", "L", "E", " ", "O", "N", "L", "Y">>,
    <<"C", "L", "O", "T", "H", "I", "N", "G">>,
    <<"S", "H", "O", "E", "S">>,
    <<"O", "T", "C", " ", "M", "E", "D", "I", "C", "A", "T", "I", "O", "N", "S", ",", " ", "V", "I", "T", "A", "M", "I", "N", "S", ",", " ", "E", "T", "C">>,
    <<"I", "N", "S", "T", "A", "N", "T", " ", "F", "O", "O", "D", "S">>,
    <<"P", "A", "C", "K", "A", "G", "E", "D", " ", "M", "E", "A", "T">>,
    <<"C", "O", "N", "D", "I", "M", "E", "N", "T", "S">>,
    <<"K", "O", "S", "H", "E", "R", " ", "I", "T", "E", "M", "S">>,
    <<"J", "U", "I", "C", "E", "S", " ", "/", " ", "W", "A", "T", "E", "R", " ", "/", " ", "T", "E", "A">>,
    <<"I", "N", "S", "T", "A", "N", "T", " ", "D", "R", "I", "N", "K", " ", "M", "I", "X">>,
    <<"I", "N", "S", "T", "A", "N", "T", " ", "D", "R", "I", "N", "K", " ", "M", "I", "X", "E", "S">> }

\* Categories that are generally non-essential.
NON_ESSENTIAL_CATEGORIES ==
  { <<"C", "A", "N", "D", "Y">>,
    <<"S", "N", "A", "C", "K", "S">>,
    <<"A", "R", "T", " ", "S", "U", "P", "P", "L", "I", "E", "S">>,
    <<"G", "A", "M", "E", "S">>,
    <<"E", "L", "E", "C", "T", "R", "I", "C", "A", "L">>,
    <<"I", "C", "E", " ", "C", "R", "E", "A", "M">>,
    <<"S", "O", "D", "A", "S">>,
    <<"J", "E", "W", "E", "L", "R", "Y", " ", "/", " ", "R", "E", "L", "I", "G", "I", "O", "U", "S">> }

\* Item name patterns that indicate essential items.
ESSENTIAL_PATTERNS ==
  { <<"s", "o", "a", "p">>,
    <<"t", "o", "o", "t", "h", "p", "a", "s", "t", "e">>,
    <<"t", "o", "o", "t", "h", " ", "b", "r", "u", "s", "h">>,
    <<"s", "h", "a", "m", "p", "o", "o">>,
    <<"d", "e", "o", "d", "o", "r", "a", "n", "t">>,
    <<"a", "n", "t", "i", "p", "e", "r", "s", "p", "i", "r", "a", "n", "t">>,
    <<"t", "o", "i", "l", "e", "t", " ", "t", "i", "s", "s", "u", "e">>,
    <<"t", "o", "i", "l", "e", "t", " ", "p", "a", "p", "e", "r">>,
    <<"t", "i", "s", "s", "u", "e">>,
    <<"r", "a", "z", "o", "r">>,
    <<"s", "h", "a", "v", "e">>,
    <<"p", "a", "d", "s">>,
    <<"p", "a", "n", "t", "i", "l", "i", "n", "e", "r", "s">>,
    <<"m", "a", "x", "i">>,
    <<"t", "a", "m", "p", "o", "n">>,
    <<"h", "y", "g", "i", "e", "n", "e", " ", "p", "a", "c", "k">>,
    <<"h", "y", "g", "i", "e", "n", "e", " ", "k", "i", "t">>,
    <<"s", "o", "c", "k", "s">>,
    <<"u", "n", "d", "e", "r", "w", "e", "a", "r">>,
    <<"b", "r", "i", "e", "f", "s">>,
    <<"b", "o", "x", "e", "r">>,
    <<"t", "-", "s", "h", "i", "r", "t">>,
    <<"t", "s", "h", "i", "r", "t">>,
    <<"s", "h", "i", "r", "t">>,
    <<"p", "a", "n", "t", "s">>,
    <<"s", "h", "o", "r", "t", "s">>,
    <<"b", "r", "a">>,
    <<"s", "p", "o", "r", "t", "s", " ", "b", "r", "a">>,
    <<"r", "a", "m", "e", "n">>,
    <<"n", "o", "o", "d", "l", "e", "s">>,
    <<"r", "i", "c", "e">>,
    <<"b", "e", "a", "n", "s">>,
    <<"c", "h", "i", "c", "k", "e", "n">>,
    <<"t", "u", "n", "a">>,
    <<"s", "a", "l", "m", "o", "n">>,
    <<"m", "a", "c", "k", "e", "r", "e", "l">>,
    <<"c", "e", "r", "e", "a", "l">>,
    <<"p", "a", "s", "t", "a">>,
    <<"p", "o", "t", "a", "t", "o">>,
    <<"i", "n", "s", "t", "a", "n", "t">>,
    <<"c", "o", "f", "f", "e", "e">>,
    <<"t", "e", "a">>,
    <<"s", "t", "a", "m", "p">>,
    <<"e", "n", "v", "e", "l", "o", "p", "e">>,
    <<"p", "e", "n">>,
    <<"p", "e", "n", "c", "i", "l">>,
    <<"p", "a", "p", "e", "r">>,
    <<"w", "r", "i", "t", "i", "n", "g", " ", "t", "a", "b", "l", "e", "t">>,
    <<"a", "s", "p", "i", "r", "i", "n">>,
    <<"i", "b", "u", "p", "r", "o", "f", "e", "n">>,
    <<"a", "n", "t", "a", "c", "i", "d">>,
    <<"v", "i", "t", "a", "m", "i", "n">>,
    <<"m", "e", "d", "i", "c", "a", "t", "i", "o", "n">>,
    <<"w", "a", "t", "e", "r">>,
    <<"j", "u", "i", "c", "e">>,
    <<"m", "i", "l", "k">> }

\* Item name patterns that indicate non-essential items.
NON_ESSENTIAL_PATTERNS ==
  { <<"c", "a", "n", "d", "y">>,
    <<"j", "a", "w", "b", "r", "e", "a", "k", "e", "r">>,
    <<"j", "o", "l", "l", "y", " ", "r", "a", "n", "c", "h", "e", "r">>,
    <<"t", "o", "o", "t", "s", "i", "e">>,
    <<"t", "w", "i", "x">>,
    <<"c", "h", "i", "p", "s">>,
    <<"t", "o", "r", "t", "i", "l", "l", "a">>,
    <<"p", "o", "r", "k", " ", "s", "k", "i", "n", "s">>,
    <<"a", "l", "m", "o", "n", "d", "s">>,
    <<"s", "u", "n", "f", "l", "o", "w", "e", "r">>,
    <<"c", "o", "l", "o", "r", "i", "n", "g", " ", "b", "o", "o", "k">>,
    <<"c", "o", "l", "o", "r", "e", "d", " ", "p", "e", "n", "c", "i", "l">>,
    <<"w", "a", "t", "e", "r", "c", "o", "l", "o", "r">>,
    <<"p", "a", "i", "n", "t">>,
    <<"d", "r", "a", "w", "i", "n", "g", " ", "p", "a", "d">>,
    <<"c", "h", "e", "s", "s">>,
    <<"g", "a", "m", "e">>,
    <<"r", "a", "d", "i", "o">>,
    <<"h", "e", "a", "d", "p", "h", "o", "n", "e">>,
    <<"e", "a", "r", "b", "u", "d">>,
    <<"f", "a", "n">>,
    <<"c", "l", "o", "c", "k">>,
    <<"t", "y", "p", "e", "w", "r", "i", "t", "e", "r">>,
    <<"r", "i", "b", "b", "o", "n">>,
    <<"p", "r", "i", "n", "t", "w", "h", "e", "e", "l">>,
    <<"l", "i", "p", "s", "t", "i", "c", "k">>,
    <<"m", "a", "s", "c", "a", "r", "a">>,
    <<"e", "y", "e", "l", "i", "n", "e", "r">>,
    <<"f", "o", "u", "n", "d", "a", "t", "i", "o", "n">>,
    <<"m", "a", "k", "e", "u", "p">>,
    <<"n", "a", "i", "l", " ", "p", "o", "l", "i", "s", "h">>,
    <<"h", "a", "i", "r", " ", "p", "e", "r", "m">>,
    <<"h", "a", "i", "r", " ", "d", "r", "y", "e", "r">>,
    <<"h", "a", "i", "r", " ", "g", "e", "l">>,
    <<"c", "o", "l", "o", "g", "n", "e">>,
    <<"p", "e", "r", "f", "u", "m", "e">>,
    <<"f", "a", "n", "c", "y">>,
    <<"l", "u", "x", "u", "r", "y">>,
    <<"g", "r", "e", "e", "t", "i", "n", "g", " ", "c", "a", "r", "d">>,
    <<"d", "i", "c", "t", "i", "o", "n", "a", "r", "y">>,
    <<"s", "t", "o", "r", "a", "g", "e", " ", "b", "o", "x">>,
    <<"m", "e", "d", "a", "l", "l", "i", "o", "n">>,
    <<"r", "u", "n", "e">>,
    <<"p", "r", "a", "y", "e", "r", " ", "o", "i", "l">>,
    <<"s", "o", "d", "a">>,
    <<"p", "o", "p">>,
    <<"i", "c", "e", " ", "c", "r", "e", "a", "m">> }

\* Items in FEMALE ONLY that are essential.
FEMALE_ESSENTIAL_ITEMS ==
  { <<"p", "a", "n", "t", "i", "l", "i", "n", "e", "r", "s">>,
    <<"m", "a", "x", "i", " ", "p", "a", "d", "s">>,
    <<"a", "l", "w", "a", "y", "s">>,
    <<"h", "y", "g", "i", "e", "n", "e", " ", "p", "a", "c", "k">>,
    <<"s", "p", "o", "r", "t", "s", " ", "b", "r", "a">>,
    <<"b", "r", "i", "e", "f", "s">>,
    <<"p", "a", "n", "t", "i", "e", "s">> }

\* Items in FEMALE ONLY that are non-essential.
FEMALE_NON_ESSENTIAL_ITEMS ==
  { <<"l", "i", "p", "s", "t", "i", "c", "k">>,
    <<"m", "a", "s", "c", "a", "r", "a">>,
    <<"e", "y", "e", "l", "i", "n", "e", "r">>,
    <<"f", "o", "u", "n", "d", "a", "t", "i", "o", "n">>,
    <<"m", "a", "k", "e", "u", "p">>,
    <<"h", "a", "i", "r", " ", "p", "e", "r", "m">>,
    <<"h", "a", "i", "r", " ", "d", "r", "y", "e", "r">>,
    <<"n", "a", "i", "l">>,
    <<"t", "w", "e", "e", "z", "e", "r">> }

\* Items in CORRESPONDENCE that are essential.
CORRESPONDENCE_ESSENTIAL_ITEMS ==
  { <<"s", "t", "a", "m", "p">>,
    <<"e", "n", "v", "e", "l", "o", "p", "e">>,
    <<"p", "e", "n">>,
    <<"p", "e", "n", "c", "i", "l">>,
    <<"p", "a", "p", "e", "r">>,
    <<"w", "r", "i", "t", "i", "n", "g", " ", "t", "a", "b", "l", "e", "t">> }

\* Items in CORRESPONDENCE that are non-essential.
CORRESPONDENCE_NON_ESSENTIAL_ITEMS ==
  { <<"g", "r", "e", "e", "t", "i", "n", "g", " ", "c", "a", "r", "d">>,
    <<"d", "i", "c", "t", "i", "o", "n", "a", "r", "y">>,
    <<"c", "a", "r", "b", "o", "n", " ", "p", "a", "p", "e", "r">>,
    <<"e", "r", "a", "s", "e", "r">>,
    <<"f", "o", "l", "d", "e", "r">>,
    <<"s", "h", "a", "r", "p", "e", "n", "e", "r">> }

\* The keywords of line 136 (the default of FEMALE ONLY).
FEMALE_HYGIENE_ITEMS ==
  { <<"h", "y", "g", "i", "e", "n", "e">>,
    <<"p", "a", "d">>,
    <<"b", "r", "a">>,
    <<"b", "r", "i", "e", "f">>,
    <<"p", "a", "n", "t", "i", "e">> }

\* The categories of line 176.
FOOD_CATEGORIES ==
  { <<"O", "T", "H", "E", "R", " ", "F", "O", "O", "D", " ", "I", "T", "E", "M", "S">> }

FEMALE_ONLY == <<"F", "E", "M", "A", "L", "E", " ", "O", "N", "L", "Y">>
CORRESPONDENCE == <<"C", "O", "R", "R", "E", "S", "P", "O", "N", "D", "E", "N", "C", "E">>


\* any(pattern in item_name_lower for pattern in patterns)
any_in(patterns, item_name_lower) ==
  \E pattern \in patterns : Contains(item_name_lower, pattern)

\* Lines 129-138: the exceptions of FEMALE ONLY.
female_only_rule(item_name_lower) ==
  IF any_in(FEMALE_NON_ESSENTIAL_ITEMS, item_name_lower) THEN "non-essential"
  ELSE IF any_in(FEMALE_ESSENTIAL_ITEMS, item_name_lower) THEN "essential"
  ELSE IF any_in(FEMALE_HYGIENE_ITEMS, item_name_lower) THEN "essential"
  ELSE "non-essential"

\* Lines 140-147: the exceptions of CORRESPONDENCE.
correspondence_rule(item_name_lower) ==
  IF any_in(CORRESPONDENCE_ESSENTIAL_ITEMS, item_name_lower) THEN "essential"
  ELSE IF any_in(CORRESPONDENCE_NON_ESSENTIAL_ITEMS, item_name_lower) THEN "non-essential"
  ELSE "essential"

\* The rule of the essential categories without the keyword override.
essential_category_rule_default(item_name_lower) == "essential"

\* Lines 149-152: the other essential categories.
essential_category_rule(item_name_lower) ==
  IF any_in(NON_ESSENTIAL_PATTERNS, item_name_lower) THEN "non-essential"
  ELSE "essential"

\* The rule of the non-essential categories with an essential-keyword override.
non_essential_category_rule_override(item_name_lower) ==
  IF any_in(ESSENTIAL_PATTERNS, item_name_lower) THEN "essential"
  ELSE "non-essential"

\* Lines 154-161: the non-essential categories.
non_essential_category_rule(item_name_lower) ==
  IF any_in(NON_ESSENTIAL_PATTERNS, item_name_lower) THEN "non-essential"
  ELSE "non-essential"

\* Lines 163-179: the categories in neither set.
ambiguous_category_rule(item_name_lower, category_upper) ==
  IF any_in(ESSENTIAL_PATTERNS, item_name_lower)
  THEN IF any_in(NON_ESSENTIAL_PATTERNS, item_name_lower) THEN "non-essential"
       ELSE "essential"
  ELSE IF any_in(NON_ESSENTIAL_PATTERNS, item_name_lower) THEN "non-essential"
  ELSE IF category_upper \in FOOD_CATEGORIES THEN "essential"
  ELSE "non-essential"

classify_item_essential(item_name, category) ==
  LET item_name_lower == lower(item_name)
      category_upper == upper(category)
  IN IF category_upper \in ESSENTIAL_CATEGORIES
     THEN IF category_upper = FEMALE_ONLY THEN female_only_rule(item_name_lower)
          ELSE IF category_upper = CORRESPONDENCE THEN correspondence_rule(item_name_lower)
          ELSE essential_category_rule(item_name_lower)
     ELSE IF category_upper \in NON_ESSENTIAL_CATEGORIES
     THEN non_essential_category_rule(item_name_lower)
     ELSE ambiguous_category_rule(item_name_lower, category_upper)

\* ------------------------------------------- the raw rows of the cleaning
\* A raw item name is the product word followed by up to MaxTokens tokens.
ProductWord == <<"S", "o", "a", "p">>
NameTokens ==
  { <<" ">>, <<"9">>, <<"1", "2">>, <<"X">>, <<"o", "z">>,
    <<"7", ".", "0", "0", "-">> }
RECURSIVE concat(_)
concat(tokens) ==
  IF tokens = <<>> THEN <<>> ELSE Head(tokens) \o concat(Tail(tokens))
RawNames ==
  { ProductWord \o concat(ts) :
      ts \in UNION { [1..n -> NameTokens] : n \in 0..MaxTokens } }
RawSizes == { NullSize, <<>>, <<"1", "2", " ", " ", "O", "Z">> }

\* Names that carry a dimension '<a> X <b>': the product word, possibly a
\* measure, the dimension in every spacing and case, possibly a measure or a
\* second dimension.
DimensionNumbers == { <<"9">>, <<"1", "2">>, <<"9", ".", "5">> }
Spacings == { <<>>, <<" ">>, <<" ", " ">> }
DimensionMarks == { "x", "X" }
Dimension(a, s1, m, s2, b) == a \o s1 \o <<m>> \o s2 \o b
Dimensions ==
  { Dimension(a, s1, m, s2, b) :
      a \in DimensionNumbers, s1 \in Spacings, m \in DimensionMarks,
      s2 \in Spacings, b \in DimensionNumbers }
NameHeads == { <<>>, <<" ", "1", "2", " ", "o", "z">> }
NameTails == { <<>>, <<" ", "1", "2", " ", "o", "z">>, <<" ", "9", "X", "1", "2">> }
DimensionNames ==
  { ProductWord \o h \o <<" ">> \o d \o t :
      h \in NameHeads, d \in Dimensions, t \in NameTails }

\* Sizes supplied in a column of their own: the two sizes of the examples, the
\* dimensions, and dimensions followed by a unit or a third number.
SizeTails ==
  { <<>>, <<"O", "Z">>, <<" ", " ", "o", "z">>, <<" ", "x", " ", "3">> }
SuppliedSizes ==
  { <<"1", "2", " ", " ", "O", "Z">>, <<"9", "x", " ", "1", "2">> }
  \cup { d \o t : d \in Dimensions, t \in SizeTails }

\* Names that end in a price token, with and without the '$' and the '-'.
PriceTokens ==
  { <<"7", ".", "0", "0", "-">>, <<"$", "5", ".", "0", "0", "-">>,
    <<"7", ".", "0", "0">>, <<"$", "5", ".", "0", "0">> }
PricedNames ==
  { ProductWord \o h \o <<" ">> \o p : h \in NameHeads, p \in PriceTokens }

RawRows ==
  { [item_name |-> n, size |-> z] : n \in RawNames, z \in RawSizes }
  \cup { [item_name |-> n, size |-> z] : n \in PricedNames, z \in RawSizes }
  \cup { [item_name |-> n, size |-> z] : n \in DimensionNames, z \in {NullSize, <<>>} }
  \cup { [item_name |-> ProductWord, size |-> z] : z \in SuppliedSizes }
  \cup { [item_name |-> ProductWord \o <<" ">> \o d,
          size |-> <<"1", "2", " ", " ", "O", "Z">>] : d \in Dimensions }

\* ----------------------------------------------- the items to classify
\* An item name is one to MaxWords of these words, separated by a space.
ClassifyWords ==
  { <<"S", "o", "a", "p">>, <<"L", "U", "X", "U", "R", "Y">>,
    <<"N", "o", "t", "e", "b", "o", "o", "k">>,
    <<"L", "i", "p", "s", "t", "i", "c", "k">>, <<"B", "r", "a">>,
    <<"E", "r", "a", "s", "e", "r">> }
ClassifyNames ==
  { join(ws) : ws \in UNION { [1..n -> ClassifyWords] : n \in 1..MaxWords } }
\* The categories of the two static sets in upper and in lower case, and
\* three categories of neither set.
ClassifyCategories ==
  LET static == ESSENTIAL_CATEGORIES \cup NON_ESSENTIAL_CATEGORIES
  IN static \cup { lower(c) : c \in static }
     \cup { CORRESPONDENCE, <<"M", "I", "S", "C", "E", "L", "L", "A", "N", "E", "O", "U", "S">>,
            <<"O", "T", "H", "E", "R", " ", "F", "O", "O", "D", " ", "I", "T", "E", "M", "S">> }
ClassifyInputs ==
  { [item_name |-> n, category |-> c] : n \in ClassifyNames, c \in ClassifyCategories }

\* ---------------------------------------------------------------- the state
VARIABLES
  commissary_df,   \* the rows of the input frame
  required_years,  \* the required_years argument of the last calculation
  fixed_basket_items, \* the local fixed_basket_items of that calculation
  sorted_items,    \* item id -> the item's rows as sort_values('year') arranged them
  result,          \* what calculate_commissary_inflation returned
  phase,           \* "start" | "aborted" | "loading" | "calculated" | "compared" | "raised"
  input_files,     \* the input files of main that exist
  messages,        \* the error messages main printed, in order
  saved,           \* the output files main wrote
  cpi_df,          \* the rows of the CPI frame
  cpi_inflation,   \* what calculate_cpi_inflation returned
  comparisons,     \* the rows compare_inflation returned
  raw_row,         \* the (item_name, size) of a row of the raw frame
  cleaned_row,     \* that row as the applications of clean_item_name left it
  applications,    \* how many times clean_item_name was applied to it
  classify_args,   \* the (item_name, category) of the item that is classified
  classifications, \* what the calls of classify_item_essential returned, in order
  fetch_function,  \* the batch fetch function that runs
  series_batches,  \* the number of batches series_ids is split into
  batch_idx,       \* the index of the batch the loop is at
  all_data,        \* the batch index of every data point collected, in order
  events,          \* the HTTP requests and the sleeps of the run, in order
  fetch_pc,        \* "request" | "sleep" | "done"
  returned,        \* "<running>" | "None" | "DataFrame"
  cleaned_df,      \* the rows of the cleaned frame the pre-filter reads
  min_years,       \* the min_years argument of filter_by_year_coverage
  filtered_df,     \* the frame filter_by_year_coverage returned
  item_year_count, \* item_name -> its number of distinct years
  filter_done,     \* whether filter_by_year_coverage has returned
  mapping_args,    \* the (commissary category, CPI category) that is looked up
  lookups          \* what the lookups in the two tables gave, in order

compare_vars == <<cpi_df, cpi_inflation, comparisons>>
inflation_vars ==
  <<commissary_df, required_years, fixed_basket_items, sorted_items, result, phase,
    input_files, messages, saved, compare_vars>>
clean_vars == <<raw_row, cleaned_row, applications>>
classify_vars == <<classify_args, classifications>>
fetch_vars ==
  <<fetch_function, series_batches, batch_idx, all_data, events, fetch_pc, returned>>
filter_vars == <<cleaned_df, min_years, filtered_df, item_year_count, filter_done>>
mapping_vars == <<mapping_args, lookups>>
vars ==
  <<inflation_vars, clean_vars, classify_vars, fetch_vars, filter_vars, mapping_vars>>

NoResult ==
  calculate_commissary_inflation({}, <<BaselineYear>>, <<>>)

\* The input files of main, the steps that produce them and its output files.
cpi_file == "data/cpi/cpi_data.csv"
commissary_file ==
  "data/commissary/processed/texas/texas_commissary_filtered_5plus_years.csv"
InputFiles == {cpi_file, commissary_file}
NoPath == "<no path>"
NoStep == "<no step>"
OutputFiles ==
  { "cpi_inflation.csv", "commissary_inflation_item_level.csv",
    "commissary_inflation_category_level.csv",
    "commissary_inflation_cpi_category_level.csv",
    "commissary_inflation_overall.csv", "inflation_comparisons.csv" }

\* main has not started: no frame is loaded, nothing is calculated, printed
\* or written.
NotStarted ==
  /\ commissary_df = {}
  /\ required_years = <<BaselineYear>>
  /\ fixed_basket_items = {}
  /\ sorted_items = <<>>
  /\ result = NoResult
  /\ phase = "start"
  /\ messages = <<>>
  /\ saved = {}
  /\ cpi_df = {}
  /\ cpi_inflation = <<>>
  /\ comparisons = {}

NoInflation == NotStarted /\ input_files = InputFiles

\* No row is being cleaned.
NoCleaning ==
  /\ raw_row = [item_name |-> <<>>, size |-> <<>>]
  /\ cleaned_row = raw_row
  /\ applications = 0

\* No item is being classified.
NoClassification ==
  /\ classify_args = [item_name |-> <<>>, category |-> <<>>]
  /\ classifications = <<>>

\* No batch fetch runs.
NoFetch ==
  /\ fetch_function = "fetch_average_price_data"
  /\ series_batches = 0
  /\ batch_idx = 0
  /\ all_data = <<>>
  /\ events = <<>>
  /\ fetch_pc = "done"
  /\ returned = "<running>"

\* No pre-filter runs.
NoFilter ==
  /\ cleaned_df = {}
  /\ min_years = 1
  /\ filtered_df = {}
  /\ item_year_count = <<>>
  /\ filter_done = FALSE

\* No category is looked up.
NoMapping ==
  /\ mapping_args = [commissary_category |-> "", cpi_category |-> ""]
  /\ lookups = <<>>

\* main starts with any of its input files present or absent.
InitInflation ==
  /\ NotStarted
  /\ input_files \in SUBSET InputFiles
  /\ NoCleaning
  /\ NoClassification
  /\ NoFetch
  /\ NoFilter
  /\ NoMapping

\* Lines 417-420: the CPI file is absent.
MissingCpiFile ==
  /\ phase = "start"
  /\ cpi_file \notin input_files
  /\ messages' = << [path |-> cpi_file, step |-> NoStep],
                    [path |-> NoPath, step |-> "fetch_cpi_data.py"] >>
  /\ phase' = "aborted"
  /\ UNCHANGED <<commissary_df, required_years, fixed_basket_items, sorted_items,
                 result, input_files, saved>>
  /\ UNCHANGED <<compare_vars, clean_vars, classify_vars, fetch_vars, filter_vars, mapping_vars>>

\* Lines 422-424: the CPI file is there and the commissary file is absent.
MissingCommissaryFile ==
  /\ phase = "start"
  /\ cpi_file \in input_files
  /\ commissary_file \notin input_files
  /\ messages' = << [path |-> commissary_file, step |-> NoStep] >>
  /\ phase' = "aborted"
  /\ UNCHANGED <<commissary_df, required_years, fixed_basket_items, sorted_items,
                 result, input_files, saved>>
  /\ UNCHANGED <<compare_vars, clean_vars, classify_vars, fetch_vars, filter_vars, mapping_vars>>

\* Lines 417-427: both files are there and are read.
InputsFound ==
  /\ phase = "start"
  /\ input_files = InputFiles
  /\ phase' = "loading"
  /\ UNCHANGED <<commissary_df, required_years, fixed_basket_items, sorted_items,
                 result, input_files, messages, saved>>
  /\ UNCHANGED <<compare_vars, clean_vars, classify_vars, fetch_vars, filter_vars, mapping_vars>>

\* One more row is read into the input frame.
LoadRow ==
  /\ phase = "loading"
  /\ Cardinality(commissary_df) < MaxRows
  /\ \E r \in RowUniverse \ commissary_df :
       commissary_df' = commissary_df \cup {r}
  /\ UNCHANGED <<required_years, fixed_basket_items, sorted_items, result, phase,
                 input_files, messages, saved>>
  /\ UNCHANGED <<compare_vars, clean_vars, classify_vars, fetch_vars, filter_vars, mapping_vars>>

\* calculate_commissary_inflation is called on the frame and main writes its
\* output files; nothing is written when the basket is empty, as
\* compare_inflation raises on the tables without rows.
Calculate ==
  /\ phase = "loading"
  /\ \E req \in RequiredYearsChoices :
       \E sorted \in SortedItemData(
            FilterToBasket(commissary_df,
                           identify_fixed_basket_items(commissary_df, req)),
            identify_fixed_basket_items(commissary_df, req)) :
         /\ required_years' = req
         /\ fixed_basket_items' = identify_fixed_basket_items(commissary_df, req)
         /\ sorted_items' = sorted
         /\ result' = calculate_commissary_inflation(commissary_df, req, sorted)
  /\ phase' = "calculated"
  /\ saved' = IF result'.overall = {} THEN {} ELSE OutputFiles
  /\ UNCHANGED <<commissary_df, input_files, messages>>
  /\ UNCHANGED <<compare_vars, clean_vars, classify_vars, fetch_vars, filter_vars, mapping_vars>>

NextInflation ==
  MissingCpiFile \/ MissingCommissaryFile \/ InputsFound \/ LoadRow \/ Calculate

SpecInflation == InitInflation /\ [][NextInflation]_vars

\* ------------------------------------------- the comparison with the CPI
MaxCompareRows == 2
\* The frames of at most n rows.
RECURSIVE FramesUpTo(_)
FramesUpTo(n) ==
  IF n = 0 THEN {{}}
  ELSE LET smaller == FramesUpTo(n - 1)
       IN smaller \cup {df \cup {r} : df \in smaller, r \in RowUniverse}
CompareFrames == FramesUpTo(MaxCompareRows)

\* Both input files are read: a commissary frame and a CPI frame.
InitCompare ==
  /\ commissary_df \in CompareFrames
  /\ cpi_df \in CpiFrames
  /\ required_years = <<BaselineYear>>
  /\ fixed_basket_items = {}
  /\ sorted_items = <<>>
  /\ result = NoResult
  /\ phase = "loading"
  /\ input_files = InputFiles
  /\ messages = <<>>
  /\ saved = {}
  /\ cpi_inflation = <<>>
  /\ comparisons = {}
  /\ NoCleaning
  /\ NoClassification
  /\ NoFetch
  /\ NoFilter
  /\ NoMapping

\* Lines 434-479: both inflation tables are calculated and compared; the
\* output files are written unless compare_inflation raises.
CompareInflation ==
  /\ phase = "loading"
  /\ \E req \in RequiredYearsChoices :
       \E sorted \in SortedItemData(
            FilterToBasket(commissary_df,
                           identify_fixed_basket_items(commissary_df, req)),
            identify_fixed_basket_items(commissary_df, req)) :
         \E type_data \in SortedTypeData(cpi_df) :
           /\ required_years' = req
           /\ fixed_basket_items' = identify_fixed_basket_items(commissary_df, req)
           /\ sorted_items' = sorted
           /\ result' = calculate_commissary_inflation(commissary_df, req, sorted)
           /\ cpi_inflation' = calculate_cpi_inflation(cpi_df, type_data)
  /\ IF compare_inflation_raises(cpi_inflation', result')
       THEN /\ phase' = "raised"
            /\ UNCHANGED <<comparisons, saved>>
       ELSE /\ phase' = "compared"
            /\ comparisons' = compare_inflation(cpi_inflation', result')
            /\ saved' = OutputFiles
  /\ UNCHANGED <<commissary_df, cpi_df, input_files, messages>>
  /\ UNCHANGED <<clean_vars, classify_vars, fetch_vars, filter_vars, mapping_vars>>

NextCompare == CompareInflation

SpecCompare == InitCompare /\ [][NextCompare]_vars

\* -------------------------------------------------- the cleaning of a row
\* A row of the raw frame, before df.apply(clean_item_name, axis=1).
InitClean ==
  /\ raw_row \in RawRows
  /\ cleaned_row = raw_row
  /\ applications = 0
  /\ NoInflation
  /\ NoClassification
  /\ NoFetch
  /\ NoFilter
  /\ NoMapping

\* clean_item_name is applied to the row (again, when the cleaned file is
\* put through the cleaning once more).
ApplyCleanItemName ==
  /\ applications < MaxApplications
  /\ cleaned_row' = clean_item_name(cleaned_row)
  /\ applications' = applications + 1
  /\ UNCHANGED raw_row
  /\ UNCHANGED <<inflation_vars, classify_vars, fetch_vars, filter_vars, mapping_vars>>

NextClean == ApplyCleanItemName

SpecClean == InitClean /\ [][NextClean]_vars

\* ------------------------------------------- the classification of an item
\* An item of the frame, before classify_dataframe reaches it.
InitClassify ==
  /\ classify_args \in ClassifyInputs
  /\ classifications = <<>>
  /\ NoInflation
  /\ NoCleaning
  /\ NoFetch
  /\ NoFilter
  /\ NoMapping

\* classify_item_essential is called on the item (once more).
ClassifyItem ==
  /\ Len(classifications) < MaxCalls
  /\ classifications' =
       Append(classifications,
              classify_item_essential(classify_args.item_name, classify_args.category))
  /\ UNCHANGED classify_args
  /\ UNCHANGED <<inflation_vars, clean_vars, fetch_vars, filter_vars, mapping_vars>>

NextClassify == ClassifyItem

SpecClassify == InitClassify /\ [][NextClassify]_vars

\* =================================================== filter_common_items.py
MaxFilterRows == 4
MaxMinYears == 3
\* The cleaned rows: two item names, each with and without a size.
FilterRowUniverse ==
  { [item_name |-> name, size |-> size, year |-> y, category |-> "CANDY",
     price_min |-> 1000, price_max |-> 1000] :
    name \in {"A", "B"}, size \in {NA, "12 oz"}, y \in Years }
FilterRequiredYears == RequiredYearsChoices \cup {<<2019, 2020, 2021>>}

\* The frames of at most n cleaned rows.
RECURSIVE CleanedFramesUpTo(_)
CleanedFramesUpTo(n) ==
  IF n = 0 THEN {{}}
  ELSE LET smaller == CleanedFramesUpTo(n - 1)
       IN smaller \cup {df \cup {r} : df \in smaller, r \in FilterRowUniverse}

\* The cleaned file is read.
InitFilter ==
  /\ cleaned_df \in CleanedFramesUpTo(MaxFilterRows)
  /\ min_years \in 1..MaxMinYears
  /\ filtered_df = {}
  /\ item_year_count = <<>>
  /\ filter_done = FALSE
  /\ NoInflation
  /\ NoCleaning
  /\ NoClassification
  /\ NoFetch
  /\ NoMapping

\* filtered_df, item_coverage = filter_by_year_coverage(df, min_years)
FilterByYearCoverage ==
  /\ ~filter_done
  /\ filtered_df' = filter_by_year_coverage(cleaned_df, min_years)
  /\ item_year_count' = year_count_by_item_name(cleaned_df)
  /\ filter_done' = TRUE
  /\ UNCHANGED <<cleaned_df, min_years>>
  /\ UNCHANGED <<inflation_vars, clean_vars, classify_vars, fetch_vars, mapping_vars>>

NextFilter == FilterByYearCoverage

SpecFilter == InitFilter /\ [][NextFilter]_vars

\* ================================================ the two category tables
\* The commissary categories of either table and one of neither; the CPI
\* categories of either table.
MappedCommissaryCategories ==
  DOMAIN COMMISSARY_TO_CPI_MAPPING
    \cup UNION {listed_under(c) : c \in DOMAIN CPI_TO_COMMISSARY_MAPPING}
    \cup {"STAMPS"}
MappedCpiCategories ==
  DOMAIN CPI_TO_COMMISSARY_MAPPING
    \cup {COMMISSARY_TO_CPI_MAPPING[k] : k \in DOMAIN COMMISSARY_TO_CPI_MAPPING}

\* A commissary category and a CPI category are picked.
InitMapping ==
  /\ mapping_args \in [commissary_category : MappedCommissaryCategories,
                        cpi_category : MappedCpiCategories]
  /\ lookups = <<>>
  /\ NoInflation
  /\ NoCleaning
  /\ NoClassification
  /\ NoFetch
  /\ NoFilter

\* The commissary category is looked up with get_cpi_category and in the list
\* of the CPI category (once more).
LookUp ==
  /\ Len(lookups) < MaxCalls
  /\ lookups' =
       Append(lookups,
              [cpi_category |-> get_cpi_category(mapping_args.commissary_category),
               listed |-> mapping_args.commissary_category
                            \in listed_under(mapping_args.cpi_category)])
  /\ UNCHANGED mapping_args
  /\ UNCHANGED <<inflation_vars, clean_vars, classify_vars, fetch_vars, filter_vars>>

NextMapping == LookUp

SpecMapping == InitMapping /\ [][NextMapping]_vars

\* ==================================================== the batch fetch loops
\* fetch_average_price_data (fetch_bls_average_prices.py) and fetch_series_data
\* (fetch_all_bls_average_prices_south.py) run the same loop over the batches
\* of series_ids.
MaxBatches == 3
FetchFunctions == {"fetch_average_price_data", "fetch_series_data"}
\* How many data points one response can add to all_data.
PointsPerBatch == {0, 1}

\* all_data after the data points of the current batch are appended.
append_points(points) ==
  IF points = 0 THEN all_data ELSE Append(all_data, batch_idx)

\* The function is called with series_ids that make up series_batches batches.
InitFetch ==
  /\ fetch_function \in FetchFunctions
  /\ series_batches \in 0..MaxBatches
  /\ batch_idx = 0
  /\ all_data = <<>>
  /\ events = <<>>
  /\ fetch_pc = "request"
  /\ returned = "<running>"
  /\ NoInflation
  /\ NoCleaning
  /\ NoClassification
  /\ NoFilter
  /\ NoMapping

\* requests.post answers REQUEST_SUCCEEDED and its data points are appended;
\* the loop sleeps next unless this was the last batch.
RequestSucceeded ==
  /\ fetch_pc = "request"
  /\ batch_idx < series_batches
  /\ events' = Append(events, "request")
  /\ \E points \in PointsPerBatch : all_data' = append_points(points)
  /\ IF batch_idx < series_batches - 1
       THEN fetch_pc' = "sleep" /\ batch_idx' = batch_idx
       ELSE fetch_pc' = "request" /\ batch_idx' = batch_idx + 1
  /\ UNCHANGED <<fetch_function, series_batches, returned>>
  /\ UNCHANGED <<inflation_vars, clean_vars, classify_vars, filter_vars, mapping_vars>>

\* time.sleep(0.5) after a batch that succeeded.
Sleep ==
  /\ fetch_pc = "sleep"
  /\ events' = Append(events, "sleep")
  /\ batch_idx' = batch_idx + 1
  /\ fetch_pc' = "request"
  /\ UNCHANGED <<fetch_function, series_batches, all_data, returned>>
  /\ UNCHANGED <<inflation_vars, clean_vars, classify_vars, filter_vars, mapping_vars>>

\* The response carries another status: the message is printed and the loop
\* continues with the next batch.
ApiError ==
  /\ fetch_pc = "request"
  /\ batch_idx < series_batches
  /\ events' = Append(events, "request")
  /\ batch_idx' = batch_idx + 1
  /\ UNCHANGED <<fetch_function, series_batches, all_data, fetch_pc, returned>>
  /\ UNCHANGED <<inflation_vars, clean_vars, classify_vars, filter_vars, mapping_vars>>

\* requests.post or raise_for_status raises RequestException: continue.
RequestRaised ==
  /\ fetch_pc = "request"
  /\ batch_idx < series_batches
  /\ events' = Append(events, "request")
  /\ batch_idx' = batch_idx + 1
  /\ UNCHANGED <<fetch_function, series_batches, all_data, fetch_pc, returned>>
  /\ UNCHANGED <<inflation_vars, clean_vars, classify_vars, filter_vars, mapping_vars>>

\* The processing of the response raises (a malformed body, a year that is no
\* number) after some of its data points may have been appended: continue.
ProcessingRaised ==
  /\ fetch_pc = "request"
  /\ batch_idx < series_batches
  /\ events' = Append(events, "request")
  /\ \E points \in PointsPerBatch : all_data' = append_points(points)
  /\ batch_idx' = batch_idx + 1
  /\ UNCHANGED <<fetch_function, series_batches, fetch_pc, returned>>
  /\ UNCHANGED <<inflation_vars, clean_vars, classify_vars, filter_vars, mapping_vars>>

\* After the last batch: None when all_data is empty, the frame otherwise.
Return ==
  /\ fetch_pc = "request"
  /\ batch_idx = series_batches
  /\ returned' = IF all_data = <<>> THEN "None" ELSE "DataFrame"
  /\ fetch_pc' = "done"
  /\ UNCHANGED <<fetch_function, series_batches, batch_idx, all_data, events>>
  /\ UNCHANGED <<inflation_vars, clean_vars, classify_vars, filter_vars, mapping_vars>>

NextFetch ==
  RequestSucceeded \/ Sleep \/ ApiError \/ RequestRaised \/ ProcessingRaised \/ Return

SpecFetch == InitFetch /\ [][NextFetch]_vars

\* ============================================================ properties
Calculated == phase = "calculated"

\* The rows of the input frame that belong to the item with this id.
RowsOfItem(id) == {r \in commissary_df : item_id(r) = id}

\* The rows of the input frame whose item is in the fixed basket.
BasketRows == {r \in commissary_df : item_id(r) \in fixed_basket_items}

\* Every row of item_level, with the id of the item it was appended for.
ItemLevelOutput ==
  UNION { { [id |-> id, row |-> result.item_level[id][i]] :
            i \in DOMAIN result.item_level[id] } :
          id \in DOMAIN result.item_level }

Y0 == SeqMin(required_years)

\* Equal as pandas values: the same number, or both null.
SameValue(a, b) == a = b \/ (IsNull(a) /\ IsNull(b))

\* C1: an item id is returned by identify_fixed_basket_items exactly when the
\* item (name and size) has a row in every required year; nothing else is
\* returned.
C1_FixedBasketCompleteness ==
  Calculated =>
    /\ \A k \in ItemKeys :
         (k[1] \o "|" \o fillna(k[2])) \in fixed_basket_items
           <=> \A y \in Range(required_years) :
                 \E r \in commissary_df :
                   r.item_name = k[1] /\ fillna(r.size) = fillna(k[2]) /\ r.year = y
    /\ fixed_basket_items \subseteq {k[1] \o "|" \o fillna(k[2]) : k \in ItemKeys}

\* A calculation whose basket holds one item and excludes another.
C1_Witness ==
  /\ Calculated
  /\ fixed_basket_items # {}
  /\ \E r \in commissary_df : item_id(r) \notin fixed_basket_items

\* C2: the four output tables are those of the same calculation run on the
\* input with every row of a non-basket item removed: such rows contribute to
\* no output, in any year.
C2_NoPartialCredit ==
  Calculated =>
    LET alone == calculate_commissary_inflation(BasketRows, required_years, sorted_items)
    IN /\ result.item_level = alone.item_level
       /\ result.category_level = alone.category_level
       /\ result.cpi_category_level = alone.cpi_category_level
       /\ result.overall = alone.overall
       /\ DOMAIN result.item_level \subseteq fixed_basket_items

\* A calculation where an excluded item has a row in the year and category of a
\* basket item's row.
C2_Witness ==
  /\ Calculated
  /\ \E r \in BasketRows :
       \E q \in commissary_df \ BasketRows :
         q.year = r.year /\ q.category = r.category /\ price_avg(q) # price_avg(r)

\* C3: in every series (item, category, cpi_category, overall) the cumulative
\* percentage in the row of the minimum required year is exactly 0.
C3_BaselineIsZero ==
  Calculated =>
    /\ \A o \in ItemLevelOutput :
         o.row.year = Y0 => o.row.cumulative_inflation_pct = Num(0)
    /\ \A row \in result.category_level \cup result.cpi_category_level \cup result.overall :
         row.year = Y0 => row.cumulative_inflation_pct = Num(0)

\* C4: every item-level cumulative percentage is the change of the row's price
\* against the item's price in the minimum required year.
C4_ItemCumulativeAgainstFirstYear ==
  Calculated =>
    \A o \in ItemLevelOutput :
      \E b \in RowsOfItem(o.id) :
        /\ b.year = Y0
        /\ SameValue(o.row.cumulative_inflation_pct,
                     pct_change(o.row.price, price_avg(b)))

ExampleFrame ==
  /\ Cardinality(commissary_df) = 3
  /\ \E a19, a20, b19 \in commissary_df :
       /\ a19.item_name = "A" /\ a19.year = 2019
       /\ a19.price_min = 1000 /\ a19.price_max = 1000
       /\ a20.item_name = "A" /\ a20.year = 2020
       /\ a20.price_min = 1200 /\ a20.price_max = 1200
       /\ b19.item_name = "B" /\ b19.year = 2019
       /\ b19.price_min = 500 /\ b19.price_max = 500

\* C6: on the example with required years 2019 and 2020 the basket is {A}, A's
\* rows are 2019 (cumulative 0, yoy null) and 2020 (cumulative 20, yoy 20), and
\* B has no row.
C6_EndToEndExample ==
  (Calculated /\ ExampleFrame /\ required_years = <<2019, 2020>>) =>
    /\ fixed_basket_items = {"A|"}
    /\ DOMAIN result.item_level = {"A|"}
    /\ Len(result.item_level["A|"]) = 2
    /\ result.item_level["A|"][1].year = 2019
    /\ result.item_level["A|"][1].cumulative_inflation_pct = Num(0)
    /\ IsNull(result.item_level["A|"][1].yoy_inflation_pct)
    /\ result.item_level["A|"][2].year = 2020
    /\ result.item_level["A|"][2].cumulative_inflation_pct = Num(20)
    /\ result.item_level["A|"][2].yoy_inflation_pct = Num(20)
    /\ \A o \in ItemLevelOutput : o.row.item_name # "B"

C6_Witness ==
  /\ Calculated /\ ExampleFrame /\ required_years = <<2019, 2020>>
  /\ result.item_level["A|"][2].cumulative_inflation_pct = Num(20)

IsZero(v) == IsRat(v) /\ v.n = 0

\* C7: a cumulative percentage whose baseline price is zero or missing, and a
\* yoy percentage whose previous-year price is zero or missing, is null.
C7_ZeroOrMissingBaseIsNull ==
  Calculated =>
    /\ \A o \in ItemLevelOutput :
         LET base == {q \in RowsOfItem(o.id) : q.year = Y0}
             prev == {q \in RowsOfItem(o.id) : q.year = o.row.year - 1}
         IN /\ (base = {} \/ \E q \in base : IsZero(price_avg(q)))
                 => IsNull(o.row.cumulative_inflation_pct)
            /\ (prev = {} \/ \E q \in prev : IsZero(price_avg(q)))
                 => IsNull(o.row.yoy_inflation_pct)
    /\ \A row \in result.category_level :
         LET base == {q \in BasketRows : q.category = row.category /\ q.year = Y0}
             prev == {q \in BasketRows : q.category = row.category /\ q.year = row.year - 1}
         IN /\ (base = {} \/ IsZero(MeanPriceAvg(base)))
                 => IsNull(row.cumulative_inflation_pct)
            /\ (prev = {} \/ IsZero(MeanPriceAvg(prev)))
                 => IsNull(row.yoy_inflation_pct)
    /\ \A row \in result.cpi_category_level :
         LET base == {q \in BasketRows : cpi_category(q) = row.cpi_category /\ q.year = Y0}
             prev == {q \in BasketRows : cpi_category(q) = row.cpi_category /\ q.year = row.year - 1}
         IN /\ (base = {} \/ IsZero(MeanPriceAvg(base)))
                 => IsNull(row.cumulative_inflation_pct)
            /\ (prev = {} \/ IsZero(MeanPriceAvg(prev)))
                 => IsNull(row.yoy_inflation_pct)
    /\ \A row \in result.overall :
         LET base == {q \in BasketRows : q.year = Y0}
             prev == {q \in BasketRows : q.year = row.year - 1}
         IN /\ (base = {} \/ IsZero(MeanPriceAvg(base)))
                 => IsNull(row.cumulative_inflation_pct)
            /\ (prev = {} \/ IsZero(MeanPriceAvg(prev)))
                 => IsNull(row.yoy_inflation_pct)

\* The group row the claims describe for the basket rows of one group: the
\* price level is the mean over the group's rows of the year, and the
\* percentages follow the item formulas against the group's mean in the
\* minimum required year and in the year before.
GroupRowAsClaimed(row, group_rows) ==
  LET of_year(y) == {q \in group_rows : q.year = y}
  IN /\ row.avg_price = MeanPriceAvg(of_year(row.year))
     /\ Cardinality(of_year(row.year))
          = Cardinality({item_id(q) : q \in of_year(row.year)})
     /\ SameValue(row.cumulative_inflation_pct,
                  IF of_year(Y0) = {} THEN None
                  ELSE pct_change(row.avg_price, MeanPriceAvg(of_year(Y0))))
     /\ SameValue(row.yoy_inflation_pct,
                  IF row.year > Y0 /\ of_year(row.year - 1) # {}
                    THEN pct_change(row.avg_price, MeanPriceAvg(of_year(row.year - 1)))
                    ELSE None)

\* C8: every category, cpi_category and overall row holds the mean price of
\* the group's basket items of that year, each item once, and the item
\* formulas applied to the series of means.
C8_GroupMeansThenInflate ==
  Calculated =>
    /\ \A row \in result.category_level :
         GroupRowAsClaimed(row, {q \in BasketRows : q.category = row.category})
    /\ \A row \in result.cpi_category_level :
         GroupRowAsClaimed(row, {q \in BasketRows : cpi_category(q) = row.cpi_category})
    /\ \A row \in result.overall :
         GroupRowAsClaimed(row, BasketRows)

\* C9: every basket item has exactly one input row, and exactly one item-level
\* row, in every required year.
C9_OneObservationPerYear ==
  Calculated =>
    \A id \in fixed_basket_items :
      \A y \in Range(required_years) :
        /\ Cardinality({q \in RowsOfItem(id) : q.year = y}) = 1
        /\ id \in DOMAIN result.item_level
        /\ Cardinality({i \in DOMAIN result.item_level[id] :
                          result.item_level[id][i].year = y}) = 1

\* ------------------------------------------------------------------- C10
\* C10: clean_item_name is idempotent: applied to its own output
\* (name', size') it returns (name', size') unchanged.
C10_CleanIsIdempotent ==
  applications >= 1 => clean_item_name(cleaned_row) = cleaned_row

\* ------------------------------------------------------------------- C11
\* The raw row has no size of its own.
NoSuppliedSize == raw_row.size \in {NullSize, <<>>}

\* C11: a row without a supplied size whose item_name is '<name> <a> X <b>'
\* (any spacing around the X, either case) is given the size '<a>x<b>' and a
\* name that contains none of <a>, X, <b>.
C11_DimensionIntegrity ==
  \A a \in DimensionNumbers, b \in DimensionNumbers :
    \A s1 \in Spacings, s2 \in Spacings, m \in DimensionMarks :
      ( /\ applications = 1
        /\ NoSuppliedSize
        /\ raw_row.item_name = ProductWord \o <<" ">> \o Dimension(a, s1, m, s2, b) )
      => /\ cleaned_row.size = a \o <<"x">> \o b
         /\ ~Contains(cleaned_row.item_name, a)
         /\ ~Contains(cleaned_row.item_name, b)
         /\ ~Contains(cleaned_row.item_name, <<m>>)

\* ------------------------------------------------------------------- C12
\* A '<num> x <num>' that still has whitespace around its x.
spaced_dimension_patterns ==
  { <<ReNumber, ReCat(<<RePlus(ReSpace), ReChr("x"), ReStar(ReSpace)>>), ReNumber>>,
    <<ReNumber, ReCat(<<ReStar(ReSpace), ReChr("x"), RePlus(ReSpace)>>), ReNumber>> }
\* A number and a following unit word with no space or several between them.
unspaced_unit_patterns ==
  { <<ReNumber, RePlus(ReSet({LowerCase[k] : k \in 1..26} \ {"x"}))>>,
    <<ReNumber, ReCat(<<ReSpace, RePlus(ReSpace)>>),
      RePlus(ReSet({LowerCase[k] : k \in 1..26} \ {"x"}))>> }

\* C12: standardize_size lower-cases, rewrites every '<num> x <num>' to
\* '<num>x<num>', leaves exactly one space between a number and a following
\* unit word, collapses and trims whitespace; '12  OZ' becomes '12 oz' and
\* '9x 12' becomes '9x12'.
C12_StandardizeSize ==
  (applications = 1 /\ ~NoSuppliedSize) =>
    /\ cleaned_row.size = standardize_size(raw_row.size)
    /\ cleaned_row.size = lower(cleaned_row.size)
    /\ \A p \in spaced_dimension_patterns : re_search(p, cleaned_row.size) = <<>>
    /\ \A p \in unspaced_unit_patterns : re_search(p, cleaned_row.size) = <<>>
    /\ cleaned_row.size = join(split(cleaned_row.size))
    /\ raw_row.size = <<"1", "2", " ", " ", "O", "Z">>
         => cleaned_row.size = <<"1", "2", " ", "o", "z">>
    /\ raw_row.size = <<"9", "x", " ", "1", "2">>
         => cleaned_row.size = <<"9", "x", "1", "2">>

\* ------------------------------------------------------------------- C13
\* C13: a trailing price token ('$' optional, digits, '.', two digits, '-'
\* optional) is removed from the end of item_name, with the hyphen
\* ('Soap 7.00-', 'Soap $5.00-') and without it ('Soap 7.00').
C13_TrailingPriceRemoved ==
  \A p \in PriceTokens :
    (applications = 1 /\ raw_row.item_name = ProductWord \o <<" ">> \o p)
      => cleaned_row.item_name = ProductWord

\* ------------------------------------------------------------------- C14
\* The raw name matches none of the nine size patterns.
MatchesNoSizePattern ==
  \A k \in 1..Len(size_patterns) : re_search(size_patterns[k], raw_row.item_name) = <<>>

\* C14 as stated: a name that matches no size pattern (no size supplied)
\* comes back with an empty size and changed only by collapsing and trimming
\* whitespace.
C14_UnparseableOnlyWhitespace ==
  (applications = 1 /\ NoSuppliedSize /\ MatchesNoSizePattern)
    => cleaned_row = [item_name |-> join(split(raw_row.item_name)), size |-> <<>>]

\* C14: a name that matches no size pattern, ends in no price token
\* 'digits.dd-' and in no bare integer (no size supplied) comes back with an
\* empty size and changed only by collapsing and trimming whitespace.
C14_UnparseableNoResidue ==
  ( /\ applications = 1
    /\ NoSuppliedSize
    /\ MatchesNoSizePattern
    /\ re_search(price_pattern_dollar, raw_row.item_name) = <<>>
    /\ re_search(trailing_number_pattern, raw_row.item_name) = <<>> )
    => cleaned_row = [item_name |-> join(split(raw_row.item_name)), size |-> <<>>]

\* Such a name, which the whitespace clean-up changed.
C14_Witness ==
  /\ applications = 1
  /\ NoSuppliedSize
  /\ MatchesNoSizePattern
  /\ re_search(price_pattern_dollar, raw_row.item_name) = <<>>
  /\ re_search(trailing_number_pattern, raw_row.item_name) = <<>>
  /\ cleaned_row.item_name # raw_row.item_name
  /\ cleaned_row.item_name # ProductWord

\* ------------------------------------------------------------------- C20
\* The raw name after the two price strips, on which the patterns are tried.
Unpriced ==
  re_sub(price_pattern, <<>>, re_sub(price_pattern_dollar, <<>>, raw_row.item_name))

\* s without the text between the borders of the match m.
WithoutMatch(s, m) == SubSeq(s, 1, m[1] - 1) \o SubSeq(s, m[Len(m)], Len(s))

\* C20: the first size pattern, in the listed order, that matches supplies
\* the size wherever later patterns would match, and exactly the matched
\* substring (one occurrence) is removed from the name.
C20_FirstPatternOneOccurrence ==
  (applications = 1 /\ NoSuppliedSize) =>
    \A k \in 1..Len(size_patterns) :
      ( /\ re_search(size_patterns[k], Unpriced) # <<>>
        /\ \A j \in 1..(k - 1) : re_search(size_patterns[j], Unpriced) = <<>> )
      => LET m == re_search(size_patterns[k], Unpriced)
         IN /\ cleaned_row.size = standardize_size(strip(group(m, 2, Unpriced)))
            /\ cleaned_row.item_name =
                 join(split(strip_trailing_number(strip(WithoutMatch(Unpriced, m)))))

\* ------------------------------------------------------------------- C15
Classified == Len(classifications) >= 1
item_name_lower == lower(classify_args.item_name)
category_upper == upper(classify_args.category)
HYGIENE == <<"H", "Y", "G", "I", "E", "N", "E">>
SoapInHygiene ==
  /\ classify_args.category = HYGIENE
  /\ Contains(item_name_lower, <<"s", "o", "a", "p">>)

\* C15 as stated: in category 'HYGIENE' a name that contains 'soap' (in any
\* case) is essential, whatever else the name contains.
C15_SoapInHygieneAlwaysEssential ==
  SoapInHygiene =>
    \A i \in DOMAIN classifications : classifications[i] = "essential"

\* C15: in category 'HYGIENE' a name that contains 'soap' is non-essential
\* when it also contains a keyword of NON_ESSENTIAL_PATTERNS, and essential
\* otherwise.
C15_SoapInHygiene ==
  SoapInHygiene =>
    \A i \in DOMAIN classifications :
      classifications[i] =
        IF \E pattern \in NON_ESSENTIAL_PATTERNS : Contains(item_name_lower, pattern)
        THEN "non-essential" ELSE "essential"

\* A soap of HYGIENE with a non-essential keyword in its name, classified.
C15_Witness ==
  /\ Classified
  /\ SoapInHygiene
  /\ \E pattern \in NON_ESSENTIAL_PATTERNS : Contains(item_name_lower, pattern)
  /\ classifications[1] = "non-essential"

StatedPrecedence ==
  LET non_essential == \E pattern \in NON_ESSENTIAL_PATTERNS : Contains(item_name_lower, pattern)
      essential == \E pattern \in ESSENTIAL_PATTERNS : Contains(item_name_lower, pattern)
  IN IF category_upper = FEMALE_ONLY THEN female_only_rule(item_name_lower)
     ELSE IF category_upper = CORRESPONDENCE THEN correspondence_rule(item_name_lower)
     ELSE IF category_upper \in ESSENTIAL_CATEGORIES \cup NON_ESSENTIAL_CATEGORIES
     THEN IF non_essential THEN "non-essential"
          ELSE IF category_upper \in ESSENTIAL_CATEGORIES THEN "essential"
          ELSE "non-essential"
     ELSE IF essential THEN "essential"
     ELSE IF non_essential THEN "non-essential"
     ELSE IF category_upper \in FOOD_CATEGORIES THEN "essential"
     ELSE "non-essential"

\* C17: the rules apply in the stated precedence; in a category of neither
\* static set a name with both an essential and a non-essential keyword is
\* essential.
C17_StatedPrecedence ==
  \A i \in DOMAIN classifications : classifications[i] = StatedPrecedence

\* ------------------------------------------------------------------- C18
\* C18: when an input file is absent main aborts before computing anything,
\* prints a message that names the expected path and the step to run first,
\* and writes no output file, for the CPI file and the commissary file alike.
C18_MissingInputAborts ==
  (phase # "start" /\ input_files # InputFiles) =>
    /\ phase = "aborted"
    /\ commissary_df = {}
    /\ result = NoResult
    /\ saved = {}
    /\ \E i \in DOMAIN messages : messages[i].path \in InputFiles \ input_files
    /\ \E i \in DOMAIN messages : messages[i].step # NoStep

\* ------------------------------------------------------------------- C19
\* The item ids of the input that lack at least one required year.
ItemsLackingAYear ==
  { id \in {item_id(r) : r \in commissary_df} :
      \E y \in Range(required_years) :
        ~\E r \in commissary_df : item_id(r) = id /\ r.year = y }

\* C19: fixed_basket_items + items_excluded = total_items_original,
\* items_excluded >= 0, and items_excluded is the number of distinct item
\* ids of the input that lack at least one required year.
C19_FixedBasketInfoAdds ==
  Calculated =>
    LET info == result.fixed_basket_info
    IN /\ info.fixed_basket_items + info.items_excluded = info.total_items_original
       /\ info.items_excluded >= 0
       /\ info.items_excluded = Cardinality(ItemsLackingAYear)

\* A calculation that kept an item with two rows and excluded another.
C19_Witness ==
  /\ Calculated
  /\ result.fixed_basket_info.fixed_basket_items = 1
  /\ result.fixed_basket_info.items_excluded = 1
  /\ Cardinality(commissary_df) = 3

\* ------------------------------------------------------------------- C21
\* Whether s ends in the text sub.
EndsWith(s, sub) ==
  Len(s) >= Len(sub) /\ SubSeq(s, Len(s) - Len(sub) + 1, Len(s)) = sub

\* C21: the trailing-integer strip removes no number of a dimension: with a
\* size supplied separately (no extraction), a name that ends in x/X is left
\* alone and a name that ends in a dimension '<a> X <b>' still ends in <b>.
C21_StripSparesDimensions ==
  (applications = 1 /\ ~NoSuppliedSize) =>
    /\ re_search(dimension_marker_pattern, Unpriced) # <<>>
         => cleaned_row.item_name = join(split(Unpriced))
    /\ \A a \in DimensionNumbers, b \in DimensionNumbers :
         \A s1 \in Spacings, s2 \in Spacings, m \in DimensionMarks :
           raw_row.item_name = ProductWord \o <<" ">> \o Dimension(a, s1, m, s2, b)
             => EndsWith(cleaned_row.item_name, b)

\* ------------------------------------------------------------------- C22
\* C22: in category 'CORRESPONDENCE' a name with a keyword of
\* CORRESPONDENCE_ESSENTIAL_ITEMS is essential, otherwise a name with a
\* keyword of CORRESPONDENCE_NON_ESSENTIAL_ITEMS is non-essential, and a name
\* with neither is essential.
C22_CorrespondenceLists ==
  classify_args.category = CORRESPONDENCE =>
    \A i \in DOMAIN classifications :
      classifications[i] =
        IF \E pattern \in CORRESPONDENCE_ESSENTIAL_ITEMS : Contains(item_name_lower, pattern)
        THEN "essential"
        ELSE IF \E pattern \in CORRESPONDENCE_NON_ESSENTIAL_ITEMS :
                  Contains(item_name_lower, pattern)
             THEN "non-essential"
             ELSE "essential"

\* ------------------------------------------------------------------- C23
\* C23: in a category of neither static set a name with no essential and no
\* non-essential keyword is non-essential.
C23_NoSignalIsNonEssential ==
  ( /\ category_upper \notin ESSENTIAL_CATEGORIES \cup NON_ESSENTIAL_CATEGORIES
    /\ ~\E pattern \in ESSENTIAL_PATTERNS : Contains(item_name_lower, pattern)
    /\ ~\E pattern \in NON_ESSENTIAL_PATTERNS : Contains(item_name_lower, pattern) )
    => \A i \in DOMAIN classifications : classifications[i] = "non-essential"

\* ------------------------------------------------------------------- C24
Compared == phase = "compared"

\* The commissary series and the CPI series a comparison row is about.
CommissarySeries(row) ==
  IF row.level = "overall" THEN result.overall
  ELSE {r \in result.cpi_category_level : r.cpi_category = row.cpi_type}
CpiSeries(row) == Range(cpi_data_of(cpi_inflation, row.cpi_type))

DiffIsRight(diff, comm, cpi) ==
  IF IsNull(comm) \/ IsNull(cpi) THEN IsNull(diff) ELSE diff = FSub(comm, cpi)

\* C24: a comparison row exists for a (level, cpi_type, year) only when the
\* year is in both the commissary series and the matching CPI series, at
\* most once per triple; its differences are commissary minus CPI when both
\* operands are present and null when either is null.
C24_ComparisonRows ==
  Compared =>
    \A row \in comparisons :
      /\ \E r \in CommissarySeries(row) : r.year = row.year
      /\ \E r \in CpiSeries(row) : r.year = row.year
      /\ \A other \in comparisons :
           ( other.level = row.level /\ other.cpi_type = row.cpi_type
             /\ other.year = row.year ) => other = row
      /\ DiffIsRight(row.yoy_diff_pct, row.commissary_yoy_pct, row.cpi_yoy_pct)
      /\ DiffIsRight(row.cum_diff_pct, row.commissary_cum_pct, row.cpi_cum_pct)

\* A comparison with a row whose operands are all present, a category row
\* with an absent operand, and a year of a commissary series left out because
\* the CPI series lacks it.
C24_Witness ==
  /\ Compared
  /\ \E row \in comparisons : IsRat(row.yoy_diff_pct) /\ IsRat(row.cum_diff_pct)
  /\ \E row \in comparisons :
       /\ row.level = "cpi_category"
       /\ IsNull(row.cpi_yoy_pct) /\ IsNull(row.yoy_diff_pct)
  /\ \E r \in result.cpi_category_level :
       ~\E row \in comparisons : row.cpi_type = r.cpi_category /\ row.year = r.year

\* ------------------------------------------------------------------- C25
\* Two HTTP requests that follow each other with no sleep in between.
BackToBackRequests ==
  \E i \in 1..(Len(events) - 1) : events[i] = "request" /\ events[i + 1] = "request"

Requests == {i \in DOMAIN events : events[i] = "request"}

\* C25: in the batch fetch loops a delay separates every two consecutive
\* HTTP requests, whatever the outcome of the earlier one; every batch is
\* requested, a failed batch being skipped; and None is returned only if no
\* data point was collected.
C25_DelayBetweenRequests ==
  /\ ~BackToBackRequests
  /\ fetch_pc = "done" => Cardinality(Requests) = series_batches
  /\ returned = "None" => all_data = <<>>

\* ------------------------------------------------------------------- C26
\* C26: the pre-filter does not change the fixed basket: for every required
\* year list with at least min_years distinct years, the fixed basket of the
\* filtered frame is the fixed basket of the frame that was filtered.
C26_FilterKeepsBasket ==
  filter_done =>
    \A req \in FilterRequiredYears :
      Cardinality(Range(req)) >= min_years =>
        identify_fixed_basket_items(filtered_df, req)
          = identify_fixed_basket_items(cleaned_df, req)

\* The filter dropped the rows of one name and kept those of another, and an
\* item with exactly min_years required years is in the basket.
C26_Witness ==
  /\ filter_done
  /\ filtered_df # cleaned_df
  /\ filtered_df # {}
  /\ \E req \in FilterRequiredYears :
       /\ Cardinality(Range(req)) = min_years
       /\ min_years > 1
       /\ identify_fixed_basket_items(cleaned_df, req) # {}

\* ------------------------------------------------------------------- C27
\* The items that have a row in the item_level output.
ItemLevelItems == {o.id : o \in ItemLevelOutput}

\* C27: for any required_years, the items of the item_level output are the
\* fixed basket that fixed_basket_info counts and the group means are taken
\* over: no basket item is missing from item_level.
C27_ItemLevelIsBasket ==
  Calculated =>
    /\ ItemLevelItems = fixed_basket_items
    /\ Cardinality(ItemLevelItems) = result.fixed_basket_info.fixed_basket_items
    /\ ItemLevelItems = {item_id(r) : r \in BasketRows}

\* ------------------------------------------------------------------- C28
\* The years of the rows of every output table.
OutputYears ==
  {o.row.year : o \in ItemLevelOutput}
    \cup {r.year : r \in result.category_level}
    \cup {r.year : r \in result.cpi_category_level}
    \cup {r.year : r \in result.overall}

\* C28: every row of item_level, category_level, cpi_category_level and
\* overall has a year of required_years: observations of basket items in
\* other years give no output row.
C28_OutputYearsAreRequired ==
  Calculated => OutputYears \subseteq Range(required_years)

\* ------------------------------------------------------------------- C29
\* The items whose prices enter the mean of a category, and of a CPI
\* category, in a year: the rows cat_data and cpi_cat_data select.
CategoryItems(category, year) ==
  {item_id(r) : r \in {q \in BasketRows : q.year = year /\ q.category = category}}
CpiCategoryItems(category, year) ==
  {item_id(r) : r \in {q \in BasketRows : q.year = year /\ cpi_category(q) = category}}

\* C29: for every category and CPI category the items that enter the group
\* mean are the same in every two required years, and they are the items
\* the item_level output labels with that category.
C29_ConstantComposition ==
  Calculated =>
    \A y1 \in Range(required_years), y2 \in Range(required_years) :
      /\ \A c \in Categories :
           /\ CategoryItems(c, y1) = CategoryItems(c, y2)
           /\ CategoryItems(c, y1) = {o.id : o \in {i \in ItemLevelOutput : i.row.category = c}}
      /\ \A c \in {get_cpi_category(k) : k \in Categories} :
           /\ CpiCategoryItems(c, y1) = CpiCategoryItems(c, y2)
           /\ CpiCategoryItems(c, y1)
                = {o.id : o \in {i \in ItemLevelOutput : i.row.cpi_category = c}}

\* ------------------------------------------------------------------- C30
\* C30: the two static tables agree: a commissary category listed under a
\* CPI category in CPI_TO_COMMISSARY_MAPPING is mapped to it by
\* get_cpi_category, and a commissary category that get_cpi_category maps to a
\* CPI category other than CPI-U is listed under that category and no other.
C30_TablesAgree ==
  \A i \in DOMAIN lookups :
    /\ lookups[i].listed => lookups[i].cpi_category = mapping_args.cpi_category
    /\ ( lookups[i].cpi_category = mapping_args.cpi_category
         /\ mapping_args.cpi_category # "CPI-U" ) => lookups[i].listed

============================================================================
